---------------------------- MODULE Spec2Model ----------------------------
(***************************************************************************)
(* Model of the plan requirement computation of the FGO planner web        *)
(* client (PlanComputationUtils): requirement-record addition, the         *)
(* per-servant enhancement cost computation and the walk over a chain of   *)
(* plans; of the master account edit hook (useMasterAccountDataEditHook);  *)
(* and of the master account service (MasterAccountService).               *)
(***************************************************************************)
EXTENDS Integers, Sequences, FiniteSets, TLC

(***************************************************************************)
(* Values shared by all parts of the model.                                *)
(***************************************************************************)

\* A null or undefined value of a Nullable<...> field.
Null == -1

\* InstantiatedServantConstants of the data library.
MaxAscensionLevel == 4
MaxSkillLevel == 10

\* JavaScript `value || 0` on a nullable level.
OrZero(value) == IF value = Null THEN 0 ELSE value

\* Smallest key of a non-empty set of integer keys: Object.entries visits
\* integer keys in ascending order.
FirstKey(keys) == CHOOSE k \in keys : \A other \in keys : k <= other

\* obj[key] = value on a plain object used as a map.
MapPut(map, key, value) ==
    [k \in (DOMAIN map) \cup {key} |-> IF k = key THEN value ELSE map[k]]

EmptyMap == [k \in {} |-> 0]

(***************************************************************************)
(* Requirement records.                                                    *)
(***************************************************************************)

_instantiateEnhancementItemRequirements ==
    [ascensions |-> 0, skills |-> 0, appendSkills |-> 0, costumes |-> 0, total |-> 0]

_instantiateEnhancementRequirements ==
    [embers |-> [rarity \in 1..5 |-> 0], items |-> EmptyMap, qp |-> 0]

\* ObjectUtils.getOrDefault(obj, key, instantiate): the map after the call,
\* holding a freshly instantiated entry when the key was missing.
getOrDefault(map, key, default) ==
    IF key \in DOMAIN map THEN map ELSE MapPut(map, key, default)

\* Mutant: the total of the source entry is not added.
_addEnhancementItemRequirements_NoTotal(target, source) ==
    [ascensions   |-> target.ascensions + source.ascensions,
     skills       |-> target.skills + source.skills,
     appendSkills |-> target.appendSkills + source.appendSkills,
     costumes     |-> target.costumes + source.costumes,
     total        |-> target.total]

_addEnhancementItemRequirements(target, source) ==
    [ascensions   |-> target.ascensions + source.ascensions,
     skills       |-> target.skills + source.skills,
     appendSkills |-> target.appendSkills + source.appendSkills,
     costumes     |-> target.costumes + source.costumes,
     total        |-> target.total + source.total]

\* The loop over Object.entries(source.items) of addEnhancementRequirements.
RECURSIVE AddItems(_, _, _)
AddItems(targetItems, sourceItems, keys) ==
    IF keys = {} THEN targetItems
    ELSE LET itemId == FirstKey(keys)
             value  == sourceItems[itemId]
             next   == IF itemId \notin DOMAIN targetItems
                       THEN MapPut(targetItems, itemId, value)
                       ELSE MapPut(targetItems, itemId,
                                _addEnhancementItemRequirements(targetItems[itemId], value))
         IN  AddItems(next, sourceItems, keys \ {itemId})

\* The loop over Object.entries(source.embers) of addEnhancementRequirements.
RECURSIVE AddEmbers(_, _, _)
AddEmbers(targetEmbers, sourceEmbers, keys) ==
    IF keys = {} THEN targetEmbers
    ELSE LET rarity == FirstKey(keys)
         IN  AddEmbers([targetEmbers EXCEPT ![rarity] = @ + sourceEmbers[rarity]],
                       sourceEmbers, keys \ {rarity})

\* Mutant: the source's item entries overwrite the target's instead of
\* being added to them.
addEnhancementRequirements_Overwrite(target, source) ==
    [embers |-> AddEmbers(target.embers, source.embers, DOMAIN source.embers),
     items  |-> [k \in (DOMAIN target.items) \cup (DOMAIN source.items) |->
                    IF k \in DOMAIN source.items THEN source.items[k]
                    ELSE target.items[k]],
     qp     |-> target.qp + source.qp]

\* Mutant: the currency of the source is assigned instead of added.
addEnhancementRequirements_AssignQp(target, source) ==
    [embers |-> AddEmbers(target.embers, source.embers, DOMAIN source.embers),
     items  |-> AddItems(target.items, source.items, DOMAIN source.items),
     qp     |-> source.qp]

\* The value of `target` after addEnhancementRequirements(target, source).
addEnhancementRequirements(target, source) ==
    [embers |-> AddEmbers(target.embers, source.embers, DOMAIN source.embers),
     items  |-> AddItems(target.items, source.items, DOMAIN source.items),
     qp     |-> target.qp + source.qp]

RECURSIVE SumFrom(_, _, _)
SumFrom(result, arr, i) ==
    IF i > Len(arr) THEN result
    ELSE SumFrom(addEnhancementRequirements(result, arr[i]), arr, i + 1)

sumEnhancementRequirements(arr) ==
    SumFrom(_instantiateEnhancementRequirements, arr, 1)

(***************************************************************************)
(* Requirement records as objects.  An item entry is an object of a heap   *)
(* (a sequence of entries, a reference being an index); the `items` of a   *)
(* record object maps item ids to references, so that two records can      *)
(* share an entry.                                                         *)
(***************************************************************************)

\* Mutant: the target's new entry is the source's entry itself.
SpreadItemEntry_Alias(heap, ref) == [heap |-> heap, ref |-> ref]

\* `{ ...value }`: a new entry object with the fields of the source's.
SpreadItemEntry(heap, ref) == [heap |-> Append(heap, heap[ref]), ref |-> Len(heap) + 1]

\* A new record object holding the given value, its entries new objects.
RECURSIVE NewItems(_, _, _, _)
NewItems(heap, refs, items, keys) ==
    IF keys = {} THEN [heap |-> heap, items |-> refs]
    ELSE LET itemId == FirstKey(keys)
         IN  NewItems(Append(heap, items[itemId]), MapPut(refs, itemId, Len(heap) + 1),
                      items, keys \ {itemId})

NewRequirements(heap, requirements) ==
    LET new == NewItems(heap, EmptyMap, requirements.items, DOMAIN requirements.items)
    IN  [heap   |-> new.heap,
         object |-> [embers |-> requirements.embers, items |-> new.items,
                     qp |-> requirements.qp]]

\* The value of a record object.
ValueIn(heap, object) ==
    [embers |-> object.embers,
     items  |-> [itemId \in DOMAIN object.items |-> heap[object.items[itemId]]],
     qp     |-> object.qp]

\* The loop over Object.entries(source.items) of addEnhancementRequirements
\* on objects: the heap and the target's items afterwards.
RECURSIVE AddItemObjects(_, _, _, _)
AddItemObjects(heap, targetItems, sourceItems, keys) ==
    IF keys = {} THEN [heap |-> heap, items |-> targetItems]
    ELSE LET itemId == FirstKey(keys)
             value  == sourceItems[itemId]
         IN  IF itemId \notin DOMAIN targetItems
             THEN LET spread == SpreadItemEntry(heap, value)
                  IN  AddItemObjects(spread.heap, MapPut(targetItems, itemId, spread.ref),
                                     sourceItems, keys \ {itemId})
             ELSE AddItemObjects(
                      [heap EXCEPT ![targetItems[itemId]] =
                          _addEnhancementItemRequirements(@, heap[value])],
                      targetItems, sourceItems, keys \ {itemId})

\* addEnhancementRequirements(target, source) on objects: the heap and the
\* target object afterwards.
AddRequirementObjects(heap, target, source) ==
    LET added == AddItemObjects(heap, target.items, source.items, DOMAIN source.items)
    IN  [heap   |-> added.heap,
         object |-> [embers |-> AddEmbers(target.embers, source.embers, DOMAIN source.embers),
                     items  |-> added.items,
                     qp     |-> target.qp + source.qp]]

\* Whether two record objects have an item entry in common.
ShareEntry(a, b) ==
    \E i \in DOMAIN a.items, j \in DOMAIN b.items : a.items[i] = b.items[j]

\* The additions of _computePlanRequirements for two computed servants of
\* the target plan: the requirements of each are added to the servant's own
\* record, to the plan's bucket and to the group total, all three new.
\* Gives the values of the six records afterwards and whether any two of
\* them share an entry.
AddToBuckets(first, second) ==
    LET e1   == NewRequirements(<<>>, first)
        e2   == NewRequirements(e1.heap, second)
        zero == _instantiateEnhancementRequirements
        s1   == AddRequirementObjects(e2.heap, zero, e1.object)
        p1   == AddRequirementObjects(s1.heap, zero, e1.object)
        g1   == AddRequirementObjects(p1.heap, zero, e1.object)
        s2   == AddRequirementObjects(g1.heap, zero, e2.object)
        p2   == AddRequirementObjects(s2.heap, p1.object, e2.object)
        g2   == AddRequirementObjects(p2.heap, g1.object, e2.object)
        heap == g2.heap
        objects == <<e1.object, e2.object, s1.object, s2.object, p2.object, g2.object>>
    IN  [first    |-> ValueIn(heap, e1.object),
         second   |-> ValueIn(heap, e2.object),
         servant1 |-> ValueIn(heap, s1.object),
         servant2 |-> ValueIn(heap, s2.object),
         plan     |-> ValueIn(heap, p2.object),
         group    |-> ValueIn(heap, g2.object),
         shared   |-> \E i, j \in 1..6 : i # j /\ ShareEntry(objects[i], objects[j])]

\* addEnhancementRequirements(target, source) followed by
\* addEnhancementRequirements(target, later): the values of the three
\* records afterwards and whether target shares an entry with a source.
AddTwice(target, source, later) ==
    LET t  == NewRequirements(<<>>, target)
        b  == NewRequirements(t.heap, source)
        c  == NewRequirements(b.heap, later)
        t1 == AddRequirementObjects(c.heap, t.object, b.object)
        t2 == AddRequirementObjects(t1.heap, t1.object, c.object)
    IN  [target |-> ValueIn(t2.heap, t2.object),
         afterFirst |-> ValueIn(t1.heap, t1.object),
         source |-> ValueIn(t2.heap, b.object),
         later  |-> ValueIn(t2.heap, c.object),
         shared |-> ShareEntry(t2.object, b.object) \/ ShareEntry(t2.object, c.object)]


(***************************************************************************)
(* Computation options.  A flag of a ComputationOptions object is true,    *)
(* false or missing (undefined); an optional argument is a sequence that   *)
(* is empty when the argument is undefined.                                *)
(***************************************************************************)

Flags == {"true", "false", "undefined"}

Truthy(flag) == flag = "true"

FromBoolean(b) == IF b THEN "true" ELSE "false"

\* JavaScript `a && b`: a when a is falsy, else b.
JsAnd(a, b) == IF Truthy(a) THEN b ELSE a

Undefined == <<>>
Some(value) == <<value>>
IsDefined(optional) == optional # <<>>
ValueOf(optional) == optional[1]

_defaultOptions ==
    [includeAscensions   |-> "true",
     includeSkills       |-> "true",
     includeAppendSkills |-> "true",
     includeCostumes     |-> "true",
     excludeLores        |-> "undefined"]

\* Mutant: the fixed target stops one skill level short of the maximum.
_defaultTargetEnhancements_LowSkills ==
    [ascension    |-> MaxAscensionLevel,
     skills       |-> <<MaxSkillLevel - 1, MaxSkillLevel - 1, MaxSkillLevel - 1>>,
     appendSkills |-> <<MaxSkillLevel, MaxSkillLevel, MaxSkillLevel>>]

_defaultTargetEnhancements ==
    [ascension    |-> MaxAscensionLevel,
     skills       |-> <<MaxSkillLevel, MaxSkillLevel, MaxSkillLevel>>,
     appendSkills |-> <<MaxSkillLevel, MaxSkillLevel, MaxSkillLevel>>]

\* `data` is a plan or a plan servant; its enabled flags are booleans.
_parseComputationOptions(data) ==
    [includeAscensions   |-> FromBoolean(data.enabled.ascensions),
     includeSkills       |-> FromBoolean(data.enabled.skills),
     includeAppendSkills |-> FromBoolean(data.enabled.appendSkills),
     includeCostumes     |-> FromBoolean(data.enabled.costumes),
     excludeLores        |-> "undefined"]

_mergeComputationOptions(a, b) ==
    [includeAscensions   |-> JsAnd(a.includeAscensions, a.includeAscensions),
     includeSkills       |-> JsAnd(a.includeSkills, b.includeSkills),
     includeAppendSkills |-> JsAnd(a.includeAppendSkills, b.includeAppendSkills),
     includeCostumes     |-> JsAnd(a.includeCostumes, b.includeCostumes),
     excludeLores        |-> JsAnd(a.excludeLores, b.excludeLores)]

(***************************************************************************)
(* The cost of one servant from a current to a target enhancement state.   *)
(***************************************************************************)

\* The loop over Object.entries(enhancement.materials).
RECURSIVE UpdateMaterials(_, _, _, _, _)
UpdateMaterials(items, materials, keys, propertyKey, enhancementCount) ==
    IF keys = {} THEN items
    ELSE LET itemId    == FirstKey(keys)
             withEntry == getOrDefault(items, itemId, _instantiateEnhancementItemRequirements)
             total     == materials[itemId] * enhancementCount
             itemCount == [withEntry[itemId] EXCEPT ![propertyKey] = @ + total,
                                                    !["total"] = @ + total]
         IN  UpdateMaterials(MapPut(withEntry, itemId, itemCount), materials,
                             keys \ {itemId}, propertyKey, enhancementCount)

_updateEnhancementRequirementResult(result, enhancement, propertyKey, enhancementCount) ==
    [result EXCEPT
        !.items = UpdateMaterials(@, enhancement.materials, DOMAIN enhancement.materials,
                                  propertyKey, enhancementCount),
        !.qp    = @ + enhancement.qp * enhancementCount]

\* Mutant: a slot already at the level is counted as still below it
\* (current >= level instead of current > level skips the slot).
SlotNeedsLevel_Strict(currentSkill, targetSkill, skillLevel) ==
    IF currentSkill >= skillLevel \/ skillLevel >= targetSkill THEN 0 ELSE 1

\* One term of skillUpgradeCount.
SlotNeedsLevel(currentSkill, targetSkill, skillLevel) ==
    IF currentSkill > skillLevel \/ skillLevel >= targetSkill THEN 0 ELSE 1

\* The loop over Object.entries(skillMaterials) of _updateResultForSkills.
RECURSIVE SkillLevelsLoop(_, _, _, _, _, _, _)
SkillLevelsLoop(result, skillMaterials, keys, currentSkills, targetSkills, skillType, excludeLores) ==
    IF keys = {} THEN result
    ELSE LET skillLevel == FirstKey(keys)
             rest       == keys \ {skillLevel}
             skillUpgradeCount ==
                 SlotNeedsLevel(OrZero(currentSkills[1]), OrZero(targetSkills[1]), skillLevel) +
                 SlotNeedsLevel(OrZero(currentSkills[2]), OrZero(targetSkills[2]), skillLevel) +
                 SlotNeedsLevel(OrZero(currentSkills[3]), OrZero(targetSkills[3]), skillLevel)
             next ==
                 IF Truthy(excludeLores) /\ skillLevel = MaxSkillLevel - 1 THEN result
                 ELSE IF skillUpgradeCount = 0 THEN result
                 ELSE _updateEnhancementRequirementResult(result, skillMaterials[skillLevel],
                                                          skillType, skillUpgradeCount)
         IN  SkillLevelsLoop(next, skillMaterials, rest, currentSkills, targetSkills,
                             skillType, excludeLores)

_updateResultForSkills(result, skillMaterials, currentSkills, targetSkills, skillType, excludeLores) ==
    SkillLevelsLoop(result, skillMaterials, DOMAIN skillMaterials,
                    currentSkills, targetSkills, skillType, excludeLores)

\* Mutant: the breakpoint at the current ascension is charged again
\* (current > level instead of current >= level skips the breakpoint).
SkipAscension_Inclusive(currentAscension, ascensionLevel, targetAscension) ==
    currentAscension > ascensionLevel \/ ascensionLevel > targetAscension

\* The skip condition of the ascension loop.
SkipAscension(currentAscension, ascensionLevel, targetAscension) ==
    currentAscension >= ascensionLevel \/ ascensionLevel > targetAscension

\* The loop over Object.entries(gameServant.ascensionMaterials).
RECURSIVE AscensionLoop(_, _, _, _, _)
AscensionLoop(result, ascensionMaterials, keys, currentEnhancements, targetAscension) ==
    IF keys = {} THEN result
    ELSE LET ascensionLevel   == FirstKey(keys)
             currentAscension == OrZero(currentEnhancements.ascension)
             next ==
                 IF SkipAscension(currentAscension, ascensionLevel, targetAscension)
                 THEN result
                 ELSE _updateEnhancementRequirementResult(result,
                          ascensionMaterials[ascensionLevel], "ascensions", 1)
         IN  AscensionLoop(next, ascensionMaterials, keys \ {ascensionLevel},
                           currentEnhancements, targetAscension)

\* Mutant: a costume that is already unlocked is charged when it is targeted.
SkipCostume_IgnoreCurrent(costumeId, currentCostumes, targetCostumes) ==
    IsDefined(targetCostumes) /\ costumeId \notin ValueOf(targetCostumes)

\* The skip condition of the costume loop.
SkipCostume(costumeId, currentCostumes, targetCostumes) ==
    \/ costumeId \in currentCostumes
    \/ (IsDefined(targetCostumes) /\ costumeId \notin ValueOf(targetCostumes))

\* The loop over Object.entries(gameServant.costumes).
RECURSIVE CostumeLoop(_, _, _, _, _)
CostumeLoop(result, costumes, keys, currentCostumes, targetCostumes) ==
    IF keys = {} THEN result
    ELSE LET costumeId == FirstKey(keys)
             next ==
                 IF SkipCostume(costumeId, currentCostumes, targetCostumes) THEN result
                 ELSE _updateEnhancementRequirementResult(result,
                          costumes[costumeId].materials, "costumes", 1)
         IN  CostumeLoop(next, costumes, keys \ {costumeId}, currentCostumes, targetCostumes)

\* Mutant: the ascension axis is computed whatever includeAscensions says.
AscensionsIncluded_Always(options, targetAscension) ==
    targetAscension # Null

\* The guard of the ascension block.
AscensionsIncluded(options, targetAscension) ==
    Truthy(options.includeAscensions) /\ targetAscension # Null

\* `optionsArg` is the optional options argument; the parameter default
\* applies only when it is undefined.
_computeServantEnhancementRequirements(gameServant, currentEnhancements, currentCostumes, targetEnhancements, targetCostumes, optionsArg) ==
    LET options == IF IsDefined(optionsArg) THEN ValueOf(optionsArg) ELSE _defaultOptions
        result0 == _instantiateEnhancementRequirements
        result1 == IF Truthy(options.includeSkills)
                   THEN _updateResultForSkills(result0, gameServant.skillMaterials,
                            currentEnhancements.skills, targetEnhancements.skills,
                            "skills", options.excludeLores)
                   ELSE result0
        result2 == IF Truthy(options.includeAppendSkills)
                   THEN _updateResultForSkills(result1, gameServant.appendSkillMaterials,
                            currentEnhancements.appendSkills, targetEnhancements.appendSkills,
                            "appendSkills", options.excludeLores)
                   ELSE result1
        targetAscension == targetEnhancements.ascension
        result3 == IF AscensionsIncluded(options, targetAscension)
                   THEN AscensionLoop(result2, gameServant.ascensionMaterials,
                            DOMAIN gameServant.ascensionMaterials,
                            currentEnhancements, targetAscension)
                   ELSE result2
        result4 == IF Truthy(options.includeCostumes)
                   THEN CostumeLoop(result3, gameServant.costumes, DOMAIN gameServant.costumes,
                            currentCostumes, targetCostumes)
                   ELSE result3
    IN  result4

computeServantEnhancementRequirements(gameServant, currentEnhancements, currentCostumes, optionsArg) ==
    _computeServantEnhancementRequirements(gameServant, currentEnhancements, currentCostumes,
        _defaultTargetEnhancements, Undefined, optionsArg)

(***************************************************************************)
(* The walk over the plans of a group (computePlanRequirements).           *)
(***************************************************************************)

\* `new Set(array)` and CollectionUtils.toReadonlySet(array).
ToSet(array) == {array[i] : i \in DOMAIN array}

\* InstantiatedServantUtils.updateEnhancements(target, source): the value of
\* `target` afterwards, on the axes that have a cost.
updateEnhancements(target, source) ==
    [ascension    |-> source.ascension,
     skills       |-> source.skills,
     appendSkills |-> source.appendSkills]

\* InstantiatedServantUtils.cloneEnhancements(source).
cloneEnhancements(source) ==
    [ascension    |-> source.ascension,
     skills       |-> source.skills,
     appendSkills |-> source.appendSkills]

\* InstantiatedServantUtils.instantiateEnhancements().
instantiateEnhancements ==
    [ascension    |-> 0,
     skills       |-> <<1, Null, Null>>,
     appendSkills |-> <<Null, Null, Null>>]

\* CollectionUtils.mapIterableToObject(servants, getInstanceId).
RECURSIVE MapServants(_, _, _)
MapServants(map, servants, i) ==
    IF i > Len(servants) THEN map
    ELSE MapServants(MapPut(map, servants[i].instanceId, servants[i]), servants, i + 1)

_preProcessMasterAccount(account) ==
    [servants |-> MapServants(EmptyMap, account.servants, 1),
     items    |-> account.resources.items,
     costumes |-> ToSet(account.costumes),
     qp       |-> account.resources.qp]

_instantiatePlanServantRequirements(planServant, masterServant) ==
    [instanceId   |-> planServant.instanceId,
     current      |-> updateEnhancements(instantiateEnhancements, masterServant),
     target       |-> cloneEnhancements(planServant),
     requirements |-> _instantiateEnhancementRequirements]

_instantiatePlanRequirements ==
    [servants      |-> EmptyMap,
     targetPlan    |-> _instantiateEnhancementRequirements,
     previousPlans |-> EmptyMap,
     group         |-> _instantiateEnhancementRequirements,
     itemDebt      |-> EmptyMap]

\* Mutant: a servant met again in a later plan keeps the baseline of its
\* first encounter (the current state is not promoted).
PromotePlanServant_KeepCurrent(planServantRequirements, planServant) ==
    [planServantRequirements EXCEPT
        !.target = updateEnhancements(@, planServant)]

\* Mutant: a servant met again in a later plan keeps the target of its
\* first encounter (the plan's values are not copied).
PromotePlanServant_KeepTarget(planServantRequirements, planServant) ==
    [planServantRequirements EXCEPT
        !.current = updateEnhancements(@, planServantRequirements.target)]

\* The else branch of _computePlanServantRequirements: the previous target
\* becomes the current state and the plan's values the target.
PromotePlanServant(planServantRequirements, planServant) ==
    [planServantRequirements EXCEPT
        !.current = updateEnhancements(@, planServantRequirements.target),
        !.target  = updateEnhancements(planServantRequirements.target, planServant)]

\* The result after the call, with the servant's entry and the computed
\* requirements.
_computePlanServantRequirements(res, gameServant, masterServant, planServant, currentCostumes, targetCostumes, opts) ==
    LET instanceId == planServant.instanceId
        planServantRequirements ==
            IF instanceId \notin DOMAIN res.servants
            THEN _instantiatePlanServantRequirements(planServant, masterServant)
            ELSE PromotePlanServant(res.servants[instanceId], planServant)
        enhancementRequirements ==
            _computeServantEnhancementRequirements(gameServant,
                planServantRequirements.current, currentCostumes,
                planServantRequirements.target, Some(targetCostumes), Some(opts))
    IN  [result |-> [res EXCEPT !.servants = MapPut(@, instanceId, planServantRequirements)],
         instanceId |-> instanceId,
         enhancementRequirements |-> enhancementRequirements]

\* Mutant: a plan servant that is not enabled is computed all the same.
SkipPlanServant_IgnoreEnabled(planServant, accountData, servantMap) ==
    \/ planServant.instanceId \notin DOMAIN accountData.servants
    \/ accountData.servants[planServant.instanceId].gameId \notin DOMAIN servantMap

\* The conditions under which the loop skips a plan servant.
SkipPlanServant(planServant, accountData, servantMap) ==
    \/ ~planServant.enabled.servant
    \/ planServant.instanceId \notin DOMAIN accountData.servants
    \/ accountData.servants[planServant.instanceId].gameId \notin DOMAIN servantMap

\* Mutant: the costs of a preceding plan are also added to the servant's
\* own requirements.
AddToPlanServant_Always(res, instanceId, enhancementRequirements, isTargetPlan) ==
    [res EXCEPT !.servants[instanceId].requirements =
        addEnhancementRequirements(@, enhancementRequirements)]

\* The servant's own requirements are updated for the target plan only.
AddToPlanServant(res, instanceId, enhancementRequirements, isTargetPlan) ==
    IF isTargetPlan
    THEN [res EXCEPT !.servants[instanceId].requirements =
              addEnhancementRequirements(@, enhancementRequirements)]
    ELSE res

\* Mutant: the requirements are not added to the group total.
AddToGroup_Skip(res, enhancementRequirements) == res

AddToGroup(res, enhancementRequirements) ==
    [res EXCEPT !.group = addEnhancementRequirements(@, enhancementRequirements)]

\* Mutant: the plan's bucket is assigned the requirements of the servant
\* instead of being added to.
AddToPlan_Overwrite(res, plan, enhancementRequirements, isTargetPlan) ==
    IF isTargetPlan
    THEN [res EXCEPT !.targetPlan = enhancementRequirements]
    ELSE [res EXCEPT !.previousPlans = MapPut(@, plan._id, enhancementRequirements)]

AddToPlan(res, plan, enhancementRequirements, isTargetPlan) ==
    IF isTargetPlan
    THEN [res EXCEPT !.targetPlan = addEnhancementRequirements(@, enhancementRequirements)]
    ELSE LET previous == getOrDefault(res.previousPlans, plan._id,
                                      _instantiateEnhancementRequirements)
         IN  [res EXCEPT !.previousPlans =
                  MapPut(previous, plan._id,
                         addEnhancementRequirements(previous[plan._id], enhancementRequirements))]

\* One iteration of the loop over plan.servants.
ProcessPlanServant(res, servantMap, accountData, plan, planServant, opts, isTargetPlan) ==
    IF SkipPlanServant(planServant, accountData, servantMap) THEN res
    ELSE LET masterServant  == accountData.servants[planServant.instanceId]
             gameServant    == servantMap[masterServant.gameId]
             servantOptions == _parseComputationOptions(planServant)
             mergedOptions  == _mergeComputationOptions(opts, servantOptions)
             computed == _computePlanServantRequirements(res, gameServant, masterServant,
                             planServant, accountData.costumes, ToSet(plan.costumes),
                             mergedOptions)
             enhancementRequirements == computed.enhancementRequirements
             res1 == AddToPlanServant(computed.result, computed.instanceId,
                                      enhancementRequirements, isTargetPlan)
             res2 == AddToPlan(res1, plan, enhancementRequirements, isTargetPlan)
         IN  AddToGroup(res2, enhancementRequirements)

RECURSIVE PlanServantsLoop(_, _, _, _, _, _, _)
PlanServantsLoop(res, servantMap, accountData, plan, i, opts, isTargetPlan) ==
    IF i > Len(plan.servants) THEN res
    ELSE PlanServantsLoop(
             ProcessPlanServant(res, servantMap, accountData, plan, plan.servants[i],
                                opts, isTargetPlan),
             servantMap, accountData, plan, i + 1, opts, isTargetPlan)

(***************************************************************************)
(* The servant enhancement objects of the walk.  The walk writes to three  *)
(* kinds of objects: the records of the result, which it instantiates      *)
(* itself, and, through InstantiatedServantUtils.updateEnhancements, the   *)
(* enhancement objects designated by `current` and `target` of a servant's *)
(* entry in the result.  An enhancement object is designated by a          *)
(* reference; it stands for the object with its `skills` and               *)
(* `appendSkills` objects.  The objects of the caller keep their values in *)
(* masterAccount and in the plans; the objects made during the call keep   *)
(* theirs in `values`, in the order of their allocation.  A state of the   *)
(* objects is a record [account, plans, servants, values], where           *)
(* `servants` gives the references held by the entries of the result.      *)
(***************************************************************************)

\* An element of masterAccount.servants; mapIterableToObject puts the
\* element itself into masterAccountData.servants.
MasterServantObject(instanceId) == [of |-> "masterServant", instanceId |-> instanceId]

\* Entry k of the servants of plan n (preceding plans first, then the
\* target plan).
PlanServantObject(n, k) == [of |-> "planServant", plan |-> n, index |-> k]

\* The n-th object allocated during the call.
NewObject(n) == [of |-> "new", id |-> n]

\* The element of account.servants that mapIterableToObject keeps for an
\* instance id: the last one.
RosterIndex(account, instanceId) ==
    CHOOSE i \in DOMAIN account.servants :
        /\ account.servants[i].instanceId = instanceId
        /\ \A j \in DOMAIN account.servants :
               account.servants[j].instanceId = instanceId => j <= i

\* The enhancement fields of the object that a reference designates.
Dereference(objects, ref) ==
    LET object == CASE ref.of = "masterServant" ->
                          objects.account.servants[RosterIndex(objects.account, ref.instanceId)]
                    [] ref.of = "planServant" -> objects.plans[ref.plan].servants[ref.index]
                    [] ref.of = "new" -> objects.values[ref.id]
    IN  [ascension    |-> object.ascension,
         skills       |-> object.skills,
         appendSkills |-> object.appendSkills]

\* InstantiatedServantUtils.updateEnhancements(target, source) on objects:
\* the enhancement fields of the object that `ref` designates are assigned
\* those of the source, whichever object that is.
WriteEnhancements(objects, ref, source) ==
    CASE ref.of = "masterServant" ->
             [objects EXCEPT !.account.servants[RosterIndex(objects.account, ref.instanceId)] =
                 [@ EXCEPT !.ascension    = source.ascension,
                           !.skills       = source.skills,
                           !.appendSkills = source.appendSkills]]
      [] ref.of = "planServant" ->
             [objects EXCEPT !.plans[ref.plan].servants[ref.index] =
                 [@ EXCEPT !.ascension    = source.ascension,
                           !.skills       = source.skills,
                           !.appendSkills = source.appendSkills]]
      [] ref.of = "new" ->
             [objects EXCEPT !.values[ref.id] = updateEnhancements(@, source)]

\* Mutant: the target of the entry is the plan servant itself
\* (`const target = planServant`).
ObjectsOfPlanServantRequirements_NoClone(objects, planServantObject, masterServantObject) ==
    LET current == NewObject(Len(objects.values) + 1)
        made    == [objects EXCEPT !.values = Append(@, instantiateEnhancements)]
        updated == WriteEnhancements(made, current, Dereference(made, masterServantObject))
    IN  [updated EXCEPT !.servants =
            MapPut(@, masterServantObject.instanceId,
                   [current |-> current, target |-> planServantObject])]

\* _instantiatePlanServantRequirements on objects: `current` is the object
\* made by instantiateEnhancements(), updated from the master servant,
\* `target` the object made by cloneEnhancements(planServant); both are new
\* objects, appended to `values`, and the entry of the result holds them.
ObjectsOfPlanServantRequirements(objects, planServantObject, masterServantObject) ==
    LET current == NewObject(Len(objects.values) + 1)
        made    == [objects EXCEPT !.values = Append(@, instantiateEnhancements)]
        updated == WriteEnhancements(made, current, Dereference(made, masterServantObject))
        target  == NewObject(Len(updated.values) + 1)
        cloned  == [updated EXCEPT !.values =
                       Append(@, cloneEnhancements(Dereference(updated, planServantObject)))]
    IN  [cloned EXCEPT !.servants =
            MapPut(@, masterServantObject.instanceId,
                   [current |-> current, target |-> target])]

\* The else branch of _computePlanServantRequirements on objects: the two
\* updateEnhancements calls write to the objects that the entry holds.
PromoteObjects(objects, instanceId, planServantObject) ==
    LET entry   == objects.servants[instanceId]
        promoted == WriteEnhancements(objects, entry.current,
                                      Dereference(objects, entry.target))
    IN  WriteEnhancements(promoted, entry.target,
                          Dereference(promoted, planServantObject))

\* The objects after entry k of plan n has been through the loop.
ObjectsAfterPlanServant(objects, n, k, servantMap) ==
    LET planServant == objects.plans[n].servants[k]
        accountData == _preProcessMasterAccount(objects.account)
        instanceId  == planServant.instanceId
    IN  IF SkipPlanServant(planServant, accountData, servantMap) THEN objects
        ELSE IF instanceId \notin DOMAIN objects.servants
        THEN ObjectsOfPlanServantRequirements(objects, PlanServantObject(n, k),
                                              MasterServantObject(instanceId))
        ELSE PromoteObjects(objects, instanceId, PlanServantObject(n, k))

\* The objects after the loop over the servants of plan n.
RECURSIVE ObjectsAfterPlan(_, _, _, _)
ObjectsAfterPlan(objects, n, k, servantMap) ==
    IF k > Len(objects.plans[n].servants) THEN objects
    ELSE ObjectsAfterPlan(ObjectsAfterPlanServant(objects, n, k, servantMap),
                          n, k + 1, servantMap)

\* The result after _computePlanRequirements(result, ...).
_computePlanRequirements(res, servantMap, accountData, plan, opts, isTargetPlan) ==
    PlanServantsLoop(res, servantMap, accountData, plan, 1, opts, isTargetPlan)

(***************************************************************************)
(* The game catalog used by the model.  Servant 1 has every table and two  *)
(* costumes; servant 2 has no ascension materials and no costume.  The     *)
(* entry of a skill level L is the cost of the upgrade from L to L + 1.    *)
(***************************************************************************)

Enhancement(materials, qp) == [materials |-> materials, qp |-> qp]

GameServant1 ==
    [ascensionMaterials |->
        [level \in 1..MaxAscensionLevel |->
            Enhancement(IF level <= 2 THEN (7 :> level) ELSE (7 :> level @@ 8 :> 1),
                        1000 * level)],
     skillMaterials |->
        [level \in 1..(MaxSkillLevel - 1) |->
            IF level = 1 THEN Enhancement((7 :> 3), 100)
            ELSE IF level < MaxSkillLevel - 1 THEN Enhancement((7 :> level @@ 8 :> 2), 100 * level)
            ELSE Enhancement((9 :> 1), 2000)],
     appendSkillMaterials |->
        [level \in 1..(MaxSkillLevel - 1) |->
            IF level < MaxSkillLevel - 1 THEN Enhancement((8 :> level), 150 * level)
            ELSE Enhancement((9 :> 1), 3000)],
     costumes |->
        (11 :> [materials |-> Enhancement((7 :> 5 @@ 9 :> 1), 3000)] @@
         12 :> [materials |-> Enhancement((8 :> 4), 5000)])]

GameServant2 ==
    [ascensionMaterials   |-> EmptyMap,
     skillMaterials       |->
        [level \in 1..(MaxSkillLevel - 1) |-> Enhancement((8 :> 1), 50 * level)],
     appendSkillMaterials |->
        [level \in 1..(MaxSkillLevel - 1) |-> Enhancement((9 :> 2), 70 * level)],
     costumes             |-> EmptyMap]

\* Game servant 3 is owned by the account but missing from the catalog.
Catalog == (1 :> GameServant1 @@ 2 :> GameServant2)

ItemIds == {7, 8, 9}
CostumeIds == {11, 12}
AscensionLevels == {Null} \cup (0..MaxAscensionLevel)
Axes == {"ascensions", "skills", "appendSkills", "costumes"}

(***************************************************************************)
(* State.                                                                  *)
(***************************************************************************)

VARIABLES
    \* Requirement addition: the records A, B, C and the values obtained.
    addIn, addOut, addPc,
    \* One servant computation: its arguments and the record returned.
    calcIn, calcOut, calcPc,
    \* computePlanRequirements: its arguments ...
    gameServantMap, masterAccount, targetPlan, previousPlans, optionsOverride,
    \* ... and its locals: the result under construction, the pre-processed
    \* account, the options, the index of the plan to compute next and the
    \* position in the method.
    result, masterAccountData, options, planIndex, pc,
    \* ... with the enhancement objects held by the servants of the result
    \* and the values of the objects made during the call.
    enhancementObjects,
    \* The master account edit hook: its include options, its four React
    \* states as of the last render (the edit data with the changes made in
    \* place since), the state updates queued for the next render, the
    \* loading indicator, the awaited persistChanges calls and the last call
    \* made on the hook.
    includeOptions, hookAccount, editData, referenceData, dirtyData, queuedState,
    loadingIndicator, persist, hookCall,
    \* The master account service: its two fields, the values published on
    \* CurrentMasterAccountChange, the session and local storage, the locks
    \* of the user interface service, the calls made on the service and the
    \* last run of _autoSelectAccount.
    currentMasterAccount, masterAccountList, published, webStorage, locks, calls,
    autoSelected

addVars == <<addIn, addOut, addPc>>
calcVars == <<calcIn, calcOut, calcPc>>
planInputs == <<gameServantMap, masterAccount, targetPlan, previousPlans, optionsOverride>>
planLocals == <<result, masterAccountData, options, planIndex, pc, enhancementObjects>>
planVars == <<planInputs, planLocals>>
hookVars == <<includeOptions, hookAccount, editData, referenceData, dirtyData,
              queuedState, loadingIndicator, persist, hookCall>>
serviceVars == <<currentMasterAccount, masterAccountList, published, webStorage, locks,
                 calls, autoSelected>>
vars == <<addVars, calcVars, planVars, hookVars, serviceVars>>

(***************************************************************************)
(* Requirement addition on its own.                                        *)
(***************************************************************************)

ItemEntryA == [ascensions |-> 1, skills |-> 0, appendSkills |-> 0, costumes |-> 0, total |-> 1]
ItemEntryB == [ascensions |-> 0, skills |-> 2, appendSkills |-> 1, costumes |-> 3, total |-> 6]

ItemMaps ==
    {EmptyMap, (7 :> ItemEntryA), (7 :> ItemEntryB), (8 :> ItemEntryB),
     (7 :> ItemEntryA @@ 8 :> ItemEntryB), (7 :> ItemEntryB @@ 8 :> ItemEntryB)}

EmberCounts == {[rarity \in 1..5 |-> 0], [rarity \in 1..5 |-> rarity]}

Requirements == [embers : EmberCounts, items : ItemMaps, qp : {0, 100}]

AddIdle ==
    [buckets |-> AddToBuckets(_instantiateEnhancementRequirements,
                              _instantiateEnhancementRequirements),
     twice |-> AddTwice(_instantiateEnhancementRequirements,
                        _instantiateEnhancementRequirements,
                        _instantiateEnhancementRequirements),
     ab |-> _instantiateEnhancementRequirements,
     ba |-> _instantiateEnhancementRequirements,
     aZero |-> _instantiateEnhancementRequirements,
     sumABC |-> _instantiateEnhancementRequirements,
     sumEmpty |-> _instantiateEnhancementRequirements]

InitAddIdle ==
    /\ addIn = <<_instantiateEnhancementRequirements, _instantiateEnhancementRequirements,
                 _instantiateEnhancementRequirements>>
    /\ addOut = AddIdle
    /\ addPc = [added |-> FALSE, summed |-> FALSE, bucketed |-> FALSE]

InitAdd ==
    /\ addIn \in Requirements \X Requirements \X Requirements
    /\ addOut = AddIdle
    /\ addPc = [added |-> FALSE, summed |-> FALSE, bucketed |-> FALSE]

\* addEnhancementRequirements(A, B), (B, A) and (A, zero): the targets after
\* the calls.
AddEnhancementRequirements ==
    /\ ~addPc.added
    /\ addOut' = [addOut EXCEPT
           !.ab    = addEnhancementRequirements(addIn[1], addIn[2]),
           !.ba    = addEnhancementRequirements(addIn[2], addIn[1]),
           !.aZero = addEnhancementRequirements(addIn[1], _instantiateEnhancementRequirements)]
    /\ addPc' = [addPc EXCEPT !.added = TRUE]
    /\ UNCHANGED <<addIn, calcVars, planVars, hookVars, serviceVars>>

\* sumEnhancementRequirements([A, B, C]) and sumEnhancementRequirements([]).
SumEnhancementRequirements ==
    /\ ~addPc.summed
    /\ addOut' = [addOut EXCEPT
           !.sumABC   = sumEnhancementRequirements(<<addIn[1], addIn[2], addIn[3]>>),
           !.sumEmpty = sumEnhancementRequirements(<<>>)]
    /\ addPc' = [addPc EXCEPT !.summed = TRUE]
    /\ UNCHANGED <<addIn, calcVars, planVars, hookVars, serviceVars>>

\* The additions of the loop of _computePlanRequirements for the records A
\* and B of two servants, and the additions of B and then C into A, on
\* record objects.
AddRequirementsToBuckets ==
    /\ ~addPc.bucketed
    /\ addOut' = [addOut EXCEPT
           !.buckets = AddToBuckets(addIn[1], addIn[2]),
           !.twice   = AddTwice(addIn[1], addIn[2], addIn[3])]
    /\ addPc' = [addPc EXCEPT !.bucketed = TRUE]
    /\ UNCHANGED <<addIn, calcVars, planVars, hookVars, serviceVars>>

(***************************************************************************)
(* One servant computation on its own.                                     *)
(***************************************************************************)

SkillLevels == {Null, 1, 3, 5, 7, 9, MaxSkillLevel}

SkillCases ==
    {[current |-> <<c, 5, 7>>, target |-> <<t, MaxSkillLevel, MaxSkillLevel>>] :
        c \in SkillLevels, t \in SkillLevels}
    \cup {[current |-> <<c, c, c>>, target |-> <<t, t, t>>] :
        c \in SkillLevels, t \in SkillLevels \cup {2}}

DefaultSkillCase == [current |-> <<1, 1, 1>>, target |-> <<2, 2, 2>>]
MaxSkillCase ==
    [current |-> <<MaxSkillLevel, MaxSkillLevel, MaxSkillLevel>>,
     target  |-> <<MaxSkillLevel, MaxSkillLevel, MaxSkillLevel>>]
NoSkillCase == [current |-> <<Null, Null, Null>>, target |-> <<Null, Null, Null>>]

CostumeCases ==
    [current : SUBSET CostumeIds,
     target : {Undefined} \cup {Some(set) : set \in SUBSET CostumeIds}]

AscensionCases == [current : AscensionLevels, target : AscensionLevels]

AxisCases ==
    [ascension : AscensionCases, skills : {DefaultSkillCase},
     appendSkills : {NoSkillCase}, costumes : CostumeCases]
    \cup [ascension : {[current |-> 0, target |-> 2]}, skills : SkillCases,
          appendSkills : {NoSkillCase}, costumes : {[current |-> {}, target |-> Undefined]}]
    \cup [ascension : {[current |-> 0, target |-> 2]}, skills : {DefaultSkillCase},
          appendSkills : SkillCases, costumes : {[current |-> {}, target |-> Undefined]}]
    \cup [ascension : {[current |-> MaxAscensionLevel, target |-> MaxAscensionLevel]},
          skills : {MaxSkillCase}, appendSkills : {MaxSkillCase, NoSkillCase},
          costumes : {[current |-> CostumeIds, target |-> Undefined],
                      [current |-> {11}, target |-> Undefined]}]

\* Options objects that leave fields out: {excludeLores: true},
\* {includeSkills: true} and {includeAscensions: false}.
PartialOptions ==
    {[includeAscensions |-> "undefined", includeSkills |-> "undefined",
      includeAppendSkills |-> "undefined", includeCostumes |-> "undefined",
      excludeLores |-> "true"],
     [includeAscensions |-> "undefined", includeSkills |-> "true",
      includeAppendSkills |-> "undefined", includeCostumes |-> "undefined",
      excludeLores |-> "undefined"],
     [includeAscensions |-> "false", includeSkills |-> "undefined",
      includeAppendSkills |-> "undefined", includeCostumes |-> "undefined",
      excludeLores |-> "undefined"]}

OptionCases ==
    {Undefined} \cup
    {Some(o) : o \in [includeAscensions : {"true", "false"},
                      includeSkills : {"true", "false"},
                      includeAppendSkills : {"true", "false"},
                      includeCostumes : {"true", "false"},
                      excludeLores : {"undefined", "true"}]}
    \cup {Some(o) : o \in PartialOptions}

CalcInput(gameId, case, optionsArg) ==
    [gameId          |-> gameId,
     current         |-> [ascension    |-> case.ascension.current,
                          skills       |-> case.skills.current,
                          appendSkills |-> case.appendSkills.current],
     currentCostumes |-> case.costumes.current,
     target          |-> [ascension    |-> case.ascension.target,
                          skills       |-> case.skills.target,
                          appendSkills |-> case.appendSkills.target],
     targetCostumes  |-> case.costumes.target,
     options         |-> optionsArg]

CalcInputs ==
    {CalcInput(gameId, case, optionsArg) :
        gameId \in DOMAIN Catalog, case \in AxisCases, optionsArg \in OptionCases}

InitCalcIdle ==
    /\ calcIn = CalcInput(1, [ascension |-> [current |-> 0, target |-> 0],
                              skills |-> NoSkillCase, appendSkills |-> NoSkillCase,
                              costumes |-> [current |-> {}, target |-> Undefined]], Undefined)
    /\ calcOut = _instantiateEnhancementRequirements
    /\ calcPc = "idle"

InitCalc ==
    /\ calcIn \in CalcInputs
    /\ calcOut = _instantiateEnhancementRequirements
    /\ calcPc = "call"

\* The requirements that _computeServantEnhancementRequirements returns for
\* an input.
CalcResult(in) ==
    _computeServantEnhancementRequirements(Catalog[in.gameId], in.current,
        in.currentCostumes, in.target, in.targetCostumes, in.options)

ComputeServantEnhancementRequirements ==
    /\ calcPc = "call"
    /\ calcOut' = CalcResult(calcIn)
    /\ calcPc' = "returned"
    /\ UNCHANGED <<calcIn, addVars, planVars, hookVars, serviceVars>>

\* The public computeServantEnhancementRequirements(gameServant,
\* currentEnhancements, currentCostumes, options), which takes no target;
\* calcIn.currentCostumes is the set of the elements of the iterable.
ComputeServantEnhancementRequirementsPublic ==
    /\ calcPc = "call"
    /\ calcOut' = computeServantEnhancementRequirements(Catalog[calcIn.gameId],
                      calcIn.current, calcIn.currentCostumes, calcIn.options)
    /\ calcPc' = "returnedPublic"
    /\ UNCHANGED <<calcIn, addVars, planVars, hookVars, serviceVars>>

(***************************************************************************)
(* computePlanRequirements.                                                *)
(***************************************************************************)

\* The largest number of preceding plans of a call.
MaxPreviousPlans == 1

NoLevels == <<Null, Null, Null>>

MasterServant(instanceId, gameId, ascension, skills, appendSkills) ==
    [instanceId |-> instanceId, gameId |-> gameId, ascension |-> ascension,
     skills |-> skills, appendSkills |-> appendSkills]

\* The accounts: servants 1 and 2 are in the catalog, servant 3 is not, and
\* no servant has instance id 4.
MasterAccounts ==
    {[servants  |-> <<MasterServant(1, 1, liveAscension, <<1, 1, 1>>, NoLevels),
                      MasterServant(2, 2, 0, <<1, Null, Null>>, <<1, Null, Null>>),
                      MasterServant(3, 3, 0, <<1, 1, 1>>, NoLevels)>>,
      costumes  |-> costumes,
      resources |-> [items |-> (7 :> 10), qp |-> 5000]] :
        liveAscension \in {0, 3}, costumes \in {<<>>, <<11>>}}

AllEnabled ==
    [servant |-> TRUE, ascensions |-> TRUE, skills |-> TRUE,
     appendSkills |-> TRUE, costumes |-> TRUE]

PlanServant(instanceId, enabled, ascension, skills, appendSkills) ==
    [instanceId |-> instanceId, enabled |-> enabled, ascension |-> ascension,
     skills |-> skills, appendSkills |-> appendSkills]

ToAscension2 == PlanServant(1, AllEnabled, 2, <<2, 2, 2>>, NoLevels)
ToAscension4 == PlanServant(1, AllEnabled, 4, <<MaxSkillLevel, 2, 2>>, <<2, Null, Null>>)
NoAscension == PlanServant(1, AllEnabled, Null, <<2, 2, 2>>, NoLevels)
AscensionsOff ==
    PlanServant(1, [AllEnabled EXCEPT !.ascensions = FALSE], 4, <<2, 2, 2>>, NoLevels)
OtherAxesOff ==
    PlanServant(1, [AllEnabled EXCEPT !.skills = FALSE, !.appendSkills = FALSE,
                                      !.costumes = FALSE], 2, <<2, 2, 2>>, <<2, 2, 2>>)
ServantOff ==
    PlanServant(1, [AllEnabled EXCEPT !.servant = FALSE], 4, <<2, 2, 2>>, NoLevels)
SecondServant == PlanServant(2, AllEnabled, 4, <<3, 1, 1>>, <<2, Null, Null>>)
NotInCatalog == PlanServant(3, AllEnabled, 4, <<2, 2, 2>>, NoLevels)
NotInAccount == PlanServant(4, AllEnabled, 4, <<2, 2, 2>>, NoLevels)

PlanServantLists ==
    {<<>>, <<ToAscension2>>, <<ToAscension4>>, <<NoAscension>>, <<AscensionsOff>>,
     <<OtherAxesOff>>, <<ServantOff, ToAscension4>>, <<NotInCatalog, ToAscension2>>,
     <<NotInAccount, NotInCatalog, SecondServant>>, <<SecondServant, ToAscension4>>}

PlanEnabledCases ==
    {[ascensions |-> TRUE, skills |-> TRUE, appendSkills |-> TRUE, costumes |-> TRUE],
     [ascensions |-> FALSE, skills |-> TRUE, appendSkills |-> TRUE, costumes |-> TRUE]}

PlanCostumeCases == {<<11>>}

\* The plans, before they are given an id.
Plans ==
    [enabled : PlanEnabledCases, costumes : PlanCostumeCases, servants : PlanServantLists]

Plan(id, plan) ==
    [_id |-> id, enabled |-> plan.enabled, costumes |-> plan.costumes,
     servants |-> plan.servants]

\* The preceding plans have the ids 1, 2, ... and the target plan the id 0.
RECURSIVE PlanLists(_)
PlanLists(n) ==
    IF n = 0 THEN {<<>>}
    ELSE {Append(list, Plan(n, plan)) : list \in PlanLists(n - 1), plan \in Plans}

PreviousPlanLists == UNION {PlanLists(n) : n \in 0..MaxPreviousPlans}

OptionsOverrides ==
    {Undefined,
     Some([includeAscensions |-> "true", includeSkills |-> "true",
           includeAppendSkills |-> "true", includeCostumes |-> "true",
           excludeLores |-> "true"])}

NoAccountData == [servants |-> EmptyMap, items |-> EmptyMap, costumes |-> {}, qp |-> 0]

\* No servant is in the result and no object has been made.
NoObjects == [servants |-> EmptyMap, values |-> <<>>]

\* The objects of the call in the current state.
CallObjects ==
    [account  |-> masterAccount,
     plans    |-> previousPlans \o <<targetPlan>>,
     servants |-> enhancementObjects.servants,
     values   |-> enhancementObjects.values]

InitPlanIdle ==
    /\ gameServantMap = Catalog
    /\ masterAccount \in {a \in MasterAccounts : a.servants[1].ascension = 0 /\ a.costumes = <<>>}
    /\ targetPlan = Plan(0, [enabled |-> [ascensions |-> TRUE, skills |-> TRUE,
                                          appendSkills |-> TRUE, costumes |-> TRUE],
                             costumes |-> <<>>, servants |-> <<>>])
    /\ previousPlans = <<>>
    /\ optionsOverride = Undefined
    /\ result = _instantiatePlanRequirements
    /\ masterAccountData = NoAccountData
    /\ options = _defaultOptions
    /\ planIndex = 0
    /\ pc = "idle"
    /\ enhancementObjects = NoObjects

InitPlan ==
    /\ gameServantMap = Catalog
    /\ masterAccount \in MasterAccounts
    /\ targetPlan \in {Plan(0, plan) : plan \in Plans}
    /\ previousPlans \in PreviousPlanLists
    /\ optionsOverride \in OptionsOverrides
    /\ result = _instantiatePlanRequirements
    /\ masterAccountData = NoAccountData
    /\ options = _defaultOptions
    /\ planIndex = 0
    /\ pc = "start"
    /\ enhancementObjects = NoObjects

\* The longest chain of preceding plans of the calls in which a servant is
\* promoted from plan to plan.
MaxChainLength == 2

\* The plans of a chain: every axis is enabled, and servant 1 is targeted
\* with different enhancements, alone or after another entry.
ChainPlans ==
    [enabled  : {[ascensions |-> TRUE, skills |-> TRUE, appendSkills |-> TRUE,
                  costumes |-> TRUE]},
     costumes : PlanCostumeCases,
     servants : {<<ToAscension2>>, <<ToAscension4>>, <<NoAscension>>,
                 <<ServantOff, ToAscension4>>, <<SecondServant, ToAscension4>>,
                 <<NotInCatalog, ToAscension2>>}]

RECURSIVE ChainLists(_)
ChainLists(n) ==
    IF n = 0 THEN {<<>>}
    ELSE {Append(list, Plan(n, plan)) : list \in ChainLists(n - 1), plan \in ChainPlans}

\* A call with a chain of up to MaxChainLength preceding plans.
InitChain ==
    /\ gameServantMap = Catalog
    /\ masterAccount \in MasterAccounts
    /\ targetPlan \in {Plan(0, plan) : plan \in ChainPlans}
    /\ previousPlans \in UNION {ChainLists(n) : n \in 0..MaxChainLength}
    /\ optionsOverride \in OptionsOverrides
    /\ result = _instantiatePlanRequirements
    /\ masterAccountData = NoAccountData
    /\ options = _defaultOptions
    /\ planIndex = 0
    /\ pc = "start"
    /\ enhancementObjects = NoObjects

\* The start of computePlanRequirements: the result is instantiated, the
\* account pre-processed and the options chosen.
ComputePlanRequirements ==
    /\ pc = "start"
    /\ result' = _instantiatePlanRequirements
    /\ masterAccountData' = _preProcessMasterAccount(masterAccount)
    /\ options' = IF IsDefined(optionsOverride) THEN ValueOf(optionsOverride)
                  ELSE _parseComputationOptions(targetPlan)
    /\ planIndex' = 1
    /\ pc' = "plans"
    /\ enhancementObjects' = NoObjects
    /\ UNCHANGED <<planInputs, addVars, calcVars, hookVars, serviceVars>>

\* One step of previousPlans.forEach: the computation of a preceding plan.
ComputePreviousPlan ==
    /\ pc = "plans"
    /\ planIndex <= Len(previousPlans)
    /\ result' = _computePlanRequirements(result, gameServantMap, masterAccountData,
                                          previousPlans[planIndex], options, FALSE)
    /\ planIndex' = planIndex + 1
    /\ LET after == ObjectsAfterPlan(CallObjects, planIndex, 1, gameServantMap)
       IN  /\ masterAccount' = after.account
           /\ masterAccountData' =
                  [masterAccountData EXCEPT
                      !.servants = MapServants(EmptyMap, after.account.servants, 1)]
           /\ previousPlans' = SubSeq(after.plans, 1, Len(previousPlans))
           /\ targetPlan' = after.plans[Len(after.plans)]
           /\ enhancementObjects' = [servants |-> after.servants, values |-> after.values]
    /\ UNCHANGED <<options, pc, gameServantMap, optionsOverride, addVars, calcVars,
                   hookVars, serviceVars>>

\* The computation of the target plan, after which the result is returned.
ComputeTargetPlan ==
    /\ pc = "plans"
    /\ planIndex > Len(previousPlans)
    /\ result' = _computePlanRequirements(result, gameServantMap, masterAccountData,
                                          targetPlan, options, TRUE)
    /\ pc' = "done"
    /\ LET after == ObjectsAfterPlan(CallObjects, Len(previousPlans) + 1, 1, gameServantMap)
       IN  /\ masterAccount' = after.account
           /\ masterAccountData' =
                  [masterAccountData EXCEPT
                      !.servants = MapServants(EmptyMap, after.account.servants, 1)]
           /\ previousPlans' = SubSeq(after.plans, 1, Len(previousPlans))
           /\ targetPlan' = after.plans[Len(after.plans)]
           /\ enhancementObjects' = [servants |-> after.servants, values |-> after.values]
    /\ UNCHANGED <<options, planIndex, gameServantMap, optionsOverride, addVars, calcVars,
                   hookVars, serviceVars>>

(***************************************************************************)
(* The master account edit hook (useMasterAccountDataEditHook).            *)
(*                                                                         *)
(* A master servant is a record [instanceId, gameId, level]; `level`       *)
(* stands for every enhancement field of the servant.  An IdNumbers        *)
(* argument is a sequence of numbers.  An account is a record              *)
(* [_id, items, qp, servants, lastServantInstanceId, bondLevels, costumes, *)
(* soundtracks] with the items and the qp of its `resources` object.       *)
(***************************************************************************)

\* GameItemConstants.QpItemId of the data library.
QpItemId == 5

\* A SetStateAction<number> is a record [kind, value]: the value itself
\* (kind "value") or the function previous => previous + value (kind
\* "function").
getUpdatedValue(action, previousValue) ==
    IF action.kind = "function" THEN previousValue + action.value ELSE action.value

\* toSet(idNumbers).
toSet(idNumbers) == {idNumbers[i] : i \in DOMAIN idNumbers}

\* MasterServantUtils.create(instanceId) of the data library.
MasterServantUtils_create(instanceId) ==
    [instanceId |-> instanceId, gameId |-> 0, level |-> 1]

\* MasterServantUtils.clone(servant) of the data library.
MasterServantUtils_clone(servant) ==
    [instanceId |-> servant.instanceId, gameId |-> servant.gameId, level |-> servant.level]

\* MasterServantUtils.isEqual(a, b) of the data library.
MasterServantUtils_isEqual(a, b) ==
    a.instanceId = b.instanceId /\ a.gameId = b.gameId /\ a.level = b.level

\* MasterServantUpdateUtils.applyToMasterServant(update, target, bondLevels,
\* costumes) of the data library.  An update is a record [gameId, level,
\* bondLevel, unlockedCostumes]; a Null level or bond level is left as it is
\* and unlockedCostumes maps a costume id to whether it is unlocked.  The
\* result holds the target and the two collections after the call.
applyToMasterServant(update, target, bondLevels, costumes) ==
    LET gameId == IF update.gameId # Null THEN update.gameId ELSE target.gameId
        unlocked == {c \in DOMAIN update.unlockedCostumes : update.unlockedCostumes[c]}
        locked   == {c \in DOMAIN update.unlockedCostumes : ~update.unlockedCostumes[c]}
    IN  [servant    |-> [target EXCEPT !.gameId = gameId,
                                       !.level = IF update.level # Null THEN update.level ELSE @],
         bondLevels |-> IF update.bondLevel # Null
                        THEN MapPut(bondLevels, gameId, update.bondLevel)
                        ELSE bondLevels,
         costumes   |-> (costumes \cup unlocked) \ locked]

getDefaultMasterAccountEditData ==
    [bondLevels |-> EmptyMap, costumes |-> {}, lastServantInstanceId |-> 0,
     items |-> EmptyMap, qp |-> 0, servants |-> <<>>, soundtracks |-> {}]

cloneMasterAccountDataForEdit(account, opts) ==
    IF ~IsDefined(account) THEN getDefaultMasterAccountEditData
    ELSE LET a == ValueOf(account)
         IN  [bondLevels |-> IF opts.includeServants THEN a.bondLevels ELSE EmptyMap,
              costumes   |-> IF opts.includeCostumes THEN a.costumes ELSE {},
              lastServantInstanceId |->
                  IF opts.includeServants THEN a.lastServantInstanceId ELSE 0,
              items      |-> IF opts.includeItems THEN a.items ELSE EmptyMap,
              qp         |-> IF opts.includeItems THEN a.qp ELSE 0,
              servants   |-> IF opts.includeServants
                             THEN [i \in DOMAIN a.servants |-> MasterServantUtils_clone(a.servants[i])]
                             ELSE <<>>,
              soundtracks |-> IF opts.includeSoundtracks THEN a.soundtracks ELSE {}]

getDefaultMasterAccountReferenceData ==
    [bondLevels |-> EmptyMap, costumes |-> {}, items |-> EmptyMap,
     lastServantInstanceId |-> 0, qp |-> 0, servants |-> <<>>, soundtracks |-> {}]

\* ArrayUtils.mapArrayToMap(servants, getInstanceId, clone): a Map keeps its
\* keys in insertion order and a later value of a key replaces the earlier
\* one in place.  The map is the sequence of its values in key order.
RECURSIVE mapArrayToMap(_, _)
mapArrayToMap(servants, map) ==
    IF servants = <<>> THEN map
    ELSE LET servant == MasterServantUtils_clone(Head(servants))
             at == {i \in DOMAIN map : map[i].instanceId = servant.instanceId}
         IN  mapArrayToMap(Tail(servants),
                           IF at = {} THEN Append(map, servant)
                           ELSE [i \in DOMAIN map |-> IF i \in at THEN servant ELSE map[i]])

cloneMasterAccountDataForReference(account, opts) ==
    IF ~IsDefined(account) THEN getDefaultMasterAccountReferenceData
    ELSE LET a == ValueOf(account)
         IN  [bondLevels |-> IF opts.includeServants THEN a.bondLevels ELSE EmptyMap,
              costumes   |-> IF opts.includeCostumes THEN a.costumes ELSE {},
              items      |-> IF opts.includeItems THEN a.items ELSE EmptyMap,
              lastServantInstanceId |->
                  IF opts.includeServants THEN a.lastServantInstanceId ELSE 0,
              qp         |-> IF opts.includeItems THEN a.qp ELSE 0,
              servants   |-> IF opts.includeServants
                             THEN mapArrayToMap(a.servants, <<>>)
                             ELSE <<>>,
              soundtracks |-> IF opts.includeSoundtracks THEN a.soundtracks ELSE {}]

getDefaultMasterAccountEditDirtyData ==
    [bondLevels |-> FALSE, costumes |-> FALSE, items |-> {}, qp |-> FALSE,
     servants |-> {}, servantOrder |-> FALSE, soundtracks |-> FALSE]

hasDirtyData(dirty) ==
    \/ dirty.bondLevels
    \/ dirty.costumes
    \/ Cardinality(dirty.items) # 0
    \/ dirty.qp
    \/ Cardinality(dirty.servants) # 0
    \/ dirty.servantOrder
    \/ dirty.soundtracks

\* referenceData.servants.has(instanceId) and .get(instanceId).
referenceHas(reference, instanceId) ==
    \E i \in DOMAIN reference : reference[i].instanceId = instanceId

referenceGet(reference, instanceId) ==
    IF referenceHas(reference, instanceId)
    THEN Some(reference[CHOOSE i \in DOMAIN reference : reference[i].instanceId = instanceId])
    ELSE Undefined

isServantsChanged(reference, servant) ==
    IF ~IsDefined(reference) THEN TRUE
    ELSE ~MasterServantUtils_isEqual(ValueOf(reference), servant)

isServantsOrderChanged(reference, servants) ==
    IF Len(reference) # Len(servants) THEN TRUE
    ELSE \E i \in DOMAIN reference : reference[i].instanceId # servants[i].instanceId

\* ObjectUtils.isShallowEquals(a, b) on two bond level records.
isShallowEquals(a, b) ==
    DOMAIN a = DOMAIN b /\ \A k \in DOMAIN a : a[k] = b[k]

\* Each local function of the hook is an operator from the edit data `e`
\* and the reference data `r` of the render the function was made in, the
\* dirty data `d` its updater is applied to and the include options `o`, to
\* the edit data after the call, which the function changes in place, and
\* the dirty data its updater returns.
HookState(e, d) == [editData |-> e, dirtyData |-> d, setDirtyData |-> TRUE]

\* The same for a call that returns before it calls setDirtyData.
Returned(e, d) == [editData |-> e, dirtyData |-> d, setDirtyData |-> FALSE]

updateCostumes(e, r, d, o, costumeIds) ==
    IF ~o.includeCostumes THEN Returned(e, d)
    ELSE LET costumes == toSet(costumeIds)
         IN  HookState([e EXCEPT !.costumes = costumes],
                       [d EXCEPT !.costumes = costumes # r.costumes])

updateQp(e, r, d, o, action) ==
    IF ~o.includeItems THEN Returned(e, d)
    ELSE LET amount == getUpdatedValue(action, e.qp)
         IN  IF e.qp = amount THEN Returned(e, d)
             ELSE HookState([e EXCEPT !.qp = amount], [d EXCEPT !.qp = amount # r.qp])

updateItem(e, r, d, o, itemId, action) ==
    IF ~o.includeItems THEN Returned(e, d)
    ELSE IF itemId = QpItemId THEN updateQp(e, r, d, o, action)
    ELSE LET missing == itemId \notin DOMAIN e.items
             currentQuantity == IF missing THEN 0 ELSE e.items[itemId]
             items == IF missing THEN MapPut(e.items, itemId, 0) ELSE e.items
             quantity == getUpdatedValue(action, currentQuantity)
             referenceQuantity ==
                 IF itemId \in DOMAIN r.items THEN r.items[itemId] ELSE 0
             isDirty == quantity # referenceQuantity
         IN  IF currentQuantity = quantity THEN Returned([e EXCEPT !.items = items], d)
             ELSE HookState([e EXCEPT !.items = MapPut(items, itemId, quantity)],
                            [d EXCEPT !.items = IF isDirty THEN @ \cup {itemId}
                                                ELSE @ \ {itemId}])

\* The map callback of addServants over the servant ids: the new servants,
\* the last instance id and the two collections after the loop.
RECURSIVE NewServants(_, _, _, _, _, _)
NewServants(servantIds, servantData, lastServantInstanceId, bondLevels, costumes, newServants) ==
    IF servantIds = <<>>
    THEN [newServants |-> newServants, lastServantInstanceId |-> lastServantInstanceId,
          bondLevels |-> bondLevels, costumes |-> costumes]
    ELSE LET created == MasterServantUtils_create(lastServantInstanceId + 1)
             applied == applyToMasterServant(servantData, created, bondLevels, costumes)
             newServant == [applied.servant EXCEPT !.gameId = Head(servantIds)]
         IN  NewServants(Tail(servantIds), servantData, lastServantInstanceId + 1,
                         applied.bondLevels, applied.costumes, Append(newServants, newServant))

addServants(e, r, d, o, servantIds, servantData) ==
    IF ~o.includeServants THEN Returned(e, d)
    ELSE LET loop == NewServants(servantIds, servantData, e.lastServantInstanceId,
                                 e.bondLevels, e.costumes, <<>>)
         IN  HookState([e EXCEPT !.servants = @ \o loop.newServants,
                                 !.lastServantInstanceId = loop.lastServantInstanceId,
                                 !.bondLevels = loop.bondLevels,
                                 !.costumes = loop.costumes],
                       [d EXCEPT !.servants = @ \cup {s.instanceId : s \in toSet(loop.newServants)},
                                 !.servantOrder = TRUE,
                                 !.bondLevels = ~isShallowEquals(r.bondLevels, loop.bondLevels),
                                 !.costumes = r.costumes # loop.costumes])

addServant(e, r, d, o, servantData) ==
    addServants(e, r, d, o, <<servantData.gameId>>, servantData)

\* The loop of updateServants over the current servants: the new array, the
\* two collections and the dirty states of the updated servants.
RECURSIVE UpdatedServants(_, _, _, _, _, _, _, _)
UpdatedServants(currentServants, instanceIdSet, update, reference, servants, bondLevels, costumes, isDirties) ==
    IF currentServants = <<>>
    THEN [servants |-> servants, bondLevels |-> bondLevels, costumes |-> costumes,
          isDirties |-> isDirties]
    ELSE LET servant == Head(currentServants)
             instanceId == servant.instanceId
             applied == applyToMasterServant(update, MasterServantUtils_clone(servant),
                                             bondLevels, costumes)
             isDirty == isServantsChanged(referenceGet(reference, instanceId), applied.servant)
         IN  IF instanceId \notin instanceIdSet
             THEN UpdatedServants(Tail(currentServants), instanceIdSet, update, reference,
                                  Append(servants, servant), bondLevels, costumes, isDirties)
             ELSE UpdatedServants(Tail(currentServants), instanceIdSet, update, reference,
                                  Append(servants, applied.servant), applied.bondLevels,
                                  applied.costumes, MapPut(isDirties, instanceId, isDirty))

updateServants(e, r, d, o, instanceIds, update) ==
    IF ~o.includeServants THEN Returned(e, d)
    ELSE LET loop == UpdatedServants(e.servants, toSet(instanceIds), update, r.servants,
                                     <<>>, e.bondLevels, e.costumes, EmptyMap)
             dirtied == {id \in DOMAIN loop.isDirties : loop.isDirties[id]}
             cleaned == {id \in DOMAIN loop.isDirties : ~loop.isDirties[id]}
         IN  HookState([e EXCEPT !.servants = loop.servants,
                                 !.bondLevels = loop.bondLevels,
                                 !.costumes = loop.costumes],
                       [d EXCEPT !.servants = (@ \cup dirtied) \ cleaned,
                                 !.bondLevels = ~isShallowEquals(r.bondLevels, loop.bondLevels),
                                 !.costumes = r.costumes # loop.costumes])

\* currentServants.findIndex(servant => servant.instanceId === instanceId),
\* 0 when there is none.
findIndex(currentServants, instanceId) ==
    LET found == {i \in DOMAIN currentServants : currentServants[i].instanceId = instanceId}
    IN  IF found = {} THEN 0 ELSE FirstKey(found)

\* The loop of updateServantOrder over the instance ids.
RECURSIVE OrderedServants(_, _, _)
OrderedServants(instanceIds, currentServants, servants) ==
    IF instanceIds = <<>> THEN servants
    ELSE LET index == findIndex(currentServants, Head(instanceIds))
         IN  OrderedServants(Tail(instanceIds), currentServants,
                             IF index # 0 THEN Append(servants, currentServants[index])
                             ELSE servants)

updateServantOrder(e, r, d, o, instanceIds) ==
    IF ~o.includeServants THEN Returned(e, d)
    ELSE LET servants == OrderedServants(instanceIds, e.servants, <<>>)
         IN  HookState([e EXCEPT !.servants = servants],
                       [d EXCEPT !.servantOrder = isServantsOrderChanged(r.servants, servants)])

\* The while loop of deleteServants.
RECURSIVE LastAfterDelete(_, _, _)
LastAfterDelete(lastServantInstanceId, referenceLast, instanceIdSet) ==
    IF lastServantInstanceId > referenceLast /\ lastServantInstanceId \in instanceIdSet
    THEN LastAfterDelete(lastServantInstanceId - 1, referenceLast, instanceIdSet)
    ELSE lastServantInstanceId

deleteServants(e, r, d, o, instanceIds) ==
    IF ~o.includeServants THEN Returned(e, d)
    ELSE LET instanceIdSet == toSet(instanceIds)
             servants == SelectSeq(e.servants, LAMBDA s : s.instanceId \notin instanceIdSet)
             added   == {id \in instanceIdSet : ~referenceHas(r.servants, id)}
             present == {id \in instanceIdSet : referenceHas(r.servants, id)}
         IN  HookState([e EXCEPT !.servants = servants,
                                 !.lastServantInstanceId =
                                     LastAfterDelete(@, r.lastServantInstanceId, instanceIdSet)],
                       [d EXCEPT !.servants = (@ \ added) \cup present,
                                 !.servantOrder = isServantsOrderChanged(r.servants, servants)])

updateSoundtracks(e, r, d, o, soundtrackIds) ==
    IF ~o.includeSoundtracks THEN Returned(e, d)
    ELSE LET soundtracks == toSet(soundtrackIds)
         IN  HookState([e EXCEPT !.soundtracks = soundtracks],
                       [d EXCEPT !.soundtracks = soundtracks # r.soundtracks])

revertChanges(account, o) ==
    HookState(cloneMasterAccountDataForEdit(account, o), getDefaultMasterAccountEditDirtyData)

\* The update built by persistChanges; a part that is not sent is Undefined.
persistUpdate(account, e, d, o) ==
    [_id |-> ValueOf(account)._id,
     resources |->
         IF o.includeItems /\ (Cardinality(d.items) # 0 \/ d.qp)
         THEN Some([items |-> e.items, qp |-> e.qp])
         ELSE Undefined,
     servants |->
         IF o.includeServants /\ (Cardinality(d.servants) # 0 \/ d.servantOrder)
         THEN Some(e.servants)
         ELSE Undefined,
     lastServantInstanceId |->
         IF o.includeServants /\ (Cardinality(d.servants) # 0 \/ d.servantOrder)
         THEN Some(e.lastServantInstanceId)
         ELSE Undefined,
     bondLevels |->
         IF o.includeServants /\ d.bondLevels THEN Some(e.bondLevels) ELSE Undefined,
     costumes |->
         IF o.includeCostumes /\ d.costumes THEN Some(e.costumes) ELSE Undefined,
     soundtracks |->
         IF o.includeSoundtracks /\ d.soundtracks THEN Some(e.soundtracks) ELSE Undefined]

\* invokeLoadingIndicator and resetLoadingIndicator of useLoadingIndicator:
\* the value of the indicator after the call.
invokeLoadingIndicator == TRUE
resetLoadingIndicator == FALSE

\* Mutant: persistChanges has no finally block.
persistChangesFinally_None == loadingIndicator

\* The finally block of persistChanges: the value of the indicator after it.
persistChangesFinally == resetLoadingIndicator

(***************************************************************************)
(* Hook inputs and actions.                                                *)
(***************************************************************************)

\* Most servants added on top of the reference data and longest list of
\* instance ids passed to an operation.
MaxAdded == 1
MaxListLength == 2
\* Largest quantity of an item or of QP.
MaxQuantity == 2

IncludeOptions(costumes, items, servants, soundtracks) ==
    [includeCostumes |-> costumes, includeItems |-> items,
     includeServants |-> servants, includeSoundtracks |-> soundtracks]

\* The four routes of the overloads of the hook.
CostumesRoute == IncludeOptions(TRUE, FALSE, FALSE, FALSE)
ItemsRoute == IncludeOptions(FALSE, TRUE, FALSE, FALSE)
ServantsRoute == IncludeOptions(TRUE, FALSE, TRUE, FALSE)
SoundtracksRoute == IncludeOptions(FALSE, FALSE, FALSE, TRUE)
HookOptions == {CostumesRoute, ItemsRoute, ServantsRoute, SoundtracksRoute}

EditServant(instanceId, gameId, level) ==
    [instanceId |-> instanceId, gameId |-> gameId, level |-> level]

\* Accounts published to the hook.  The instance ids of an account are
\* distinct and none is above its lastServantInstanceId.
StockedAccount ==
    [_id |-> "a", items |-> (7 :> 2), qp |-> 1,
     servants |-> <<EditServant(1, 100, 1)>>,
     lastServantInstanceId |-> 1, bondLevels |-> (100 :> 5), costumes |-> {11},
     soundtracks |-> {1}]
FreshAccount ==
    [_id |-> "b", items |-> EmptyMap, qp |-> 0, servants |-> <<>>,
     lastServantInstanceId |-> 0, bondLevels |-> EmptyMap, costumes |-> {},
     soundtracks |-> {}]
HookAccounts == {StockedAccount, FreshAccount}

ServantUpdate(gameId, level, bondLevel, unlockedCostumes) ==
    [gameId |-> gameId, level |-> level, bondLevel |-> bondLevel,
     unlockedCostumes |-> unlockedCostumes]

NewServantUpdates ==
    {ServantUpdate(100, 1, Null, EmptyMap), ServantUpdate(100, 1, 6, (11 :> TRUE))}
ExistingServantUpdates ==
    {ServantUpdate(Null, 2, Null, EmptyMap), ServantUpdate(Null, 1, 5, (11 :> FALSE))}
ServantIdLists == {<<100>>, <<100, 100>>}

\* Every list of at most MaxListLength instance ids, repeated ids included.
MaxInstanceId == StockedAccount.lastServantInstanceId + MaxAdded
InstanceIdLists ==
    UNION {[1..n -> 1..MaxInstanceId] : n \in 0..MaxListLength}
\* The lists among them that name a set of instance ids once, in
\* ascending order.
InstanceIdSets ==
    {ids \in InstanceIdLists : \A i, j \in DOMAIN ids : i < j => ids[i] < ids[j]}

CostumeIdLists == {<<>>, <<11>>}
SoundtrackIdLists == {<<>>, <<1>>}
EditItemIds == {7, QpItemId}
ValueAction(value) == [kind |-> "value", value |-> value]
ItemActions == {ValueAction(q) : q \in 0..MaxQuantity} \cup {[kind |-> "function", value |-> 1]}

\* Most calls of the local functions of the hook between two renders, and
\* most persistChanges calls awaited at a time.
MaxUnrenderedCalls == 1
MaxPersistCalls == 2

\* The last call made on the hook since the last render: the operation,
\* its list of ids, the last instance id of the edit data when it was
\* called, for persistChanges the update passed to
\* masterAccountService.updateAccount, and how a persistChanges call ended.
Call(op, ids) ==
    [op |-> op, ids |-> ids, last |-> editData.lastServantInstanceId, update |-> Undefined,
     outcome |-> "none"]
PlainCall(op) == Call(op, <<>>)
NoCall == [op |-> "none", ids |-> <<>>, last |-> 0, update |-> Undefined, outcome |-> "none"]
PersistEnded(op, outcome) == [PlainCall(op) EXCEPT !.outcome = outcome]

\* No state update is queued: the four states are those of the last render.
NoQueuedState ==
    [editData |-> Undefined, referenceData |-> Undefined, dirtyData |-> Undefined,
     masterAccount |-> Undefined, calls |-> 0]
Rendered == queuedState = NoQueuedState

\* The state a queued update gives at the next render.
AtRender(queued, state) == IF IsDefined(queued) THEN ValueOf(queued) ELSE state

InitHookIdle ==
    /\ includeOptions = IncludeOptions(FALSE, FALSE, FALSE, FALSE)
    /\ hookAccount = Undefined
    /\ editData = getDefaultMasterAccountEditData
    /\ referenceData = getDefaultMasterAccountReferenceData
    /\ dirtyData = getDefaultMasterAccountEditDirtyData
    /\ queuedState = NoQueuedState
    /\ loadingIndicator = FALSE
    /\ persist = <<>>
    /\ hookCall = NoCall

\* The routes persistChanges is called on: the costumes route, the items
\* route, and a hook made without any include option.
PersistOptions == {CostumesRoute, ItemsRoute, IncludeOptions(FALSE, FALSE, FALSE, FALSE)}

InitHook ==
    /\ includeOptions \in HookOptions \cup PersistOptions
    /\ hookAccount = Undefined
    /\ editData = getDefaultMasterAccountEditData
    /\ referenceData = getDefaultMasterAccountReferenceData
    /\ dirtyData = getDefaultMasterAccountEditDirtyData
    /\ queuedState = NoQueuedState
    /\ loadingIndicator = FALSE
    /\ persist = <<>>
    /\ hookCall = NoCall

\* A local function of the hook, called with the states of the last
\* render: it changes the edit data in place and, unless it returned
\* before, queues its updater of the dirty data, which the next render
\* applies after the updates queued before it.
LocalCall(after) ==
    /\ after.setDirtyData => queuedState.calls < MaxUnrenderedCalls
    /\ editData' = after.editData
    /\ queuedState' = IF after.setDirtyData
                      THEN [queuedState EXCEPT !.dirtyData = Some(after.dirtyData),
                                               !.calls = @ + 1]
                      ELSE queuedState
    /\ UNCHANGED <<includeOptions, hookAccount, referenceData, dirtyData, loadingIndicator,
                   persist, addVars, calcVars, planVars, serviceVars>>

\* The subscription to CurrentMasterAccountChange: it queues an update of
\* each of the four states.
AccountChanged(account) ==
    /\ queuedState' =
           [queuedState EXCEPT
               !.editData = Some(cloneMasterAccountDataForEdit(account, includeOptions)),
               !.referenceData =
                   Some(cloneMasterAccountDataForReference(account, includeOptions)),
               !.dirtyData = Some(getDefaultMasterAccountEditDirtyData),
               !.masterAccount = Some(account)]
    /\ UNCHANGED <<hookAccount, editData, referenceData, dirtyData>>

OnCurrentMasterAccountChange ==
    \E account \in {Undefined} \cup {Some(a) : a \in HookAccounts} :
        /\ hookCall' = PlainCall("accountChange")
        /\ AccountChanged(account)
        /\ UNCHANGED <<includeOptions, loadingIndicator, persist, addVars, calcVars, planVars, serviceVars>>

\* The component renders again: the queued updates become the states, and
\* the functions of the hook are made again from them.
Render ==
    /\ ~Rendered
    /\ editData' = AtRender(queuedState.editData, editData)
    /\ referenceData' = AtRender(queuedState.referenceData, referenceData)
    /\ dirtyData' = AtRender(queuedState.dirtyData, dirtyData)
    /\ hookAccount' = AtRender(queuedState.masterAccount, hookAccount)
    /\ queuedState' = NoQueuedState
    /\ hookCall' = NoCall
    /\ UNCHANGED <<includeOptions, loadingIndicator, persist,
                   addVars, calcVars, planVars, serviceVars>>

UpdateCostumes ==
    \E costumeIds \in CostumeIdLists :
        /\ hookCall' = Call("updateCostumes", costumeIds)
        /\ LocalCall(updateCostumes(editData, referenceData,
                                    AtRender(queuedState.dirtyData, dirtyData),
                                    includeOptions, costumeIds))

UpdateQp ==
    \E action \in ItemActions :
        /\ getUpdatedValue(action, editData.qp) <= MaxQuantity
        /\ hookCall' = Call("updateQp", <<>>)
        /\ LocalCall(updateQp(editData, referenceData,
                              AtRender(queuedState.dirtyData, dirtyData),
                              includeOptions, action))

UpdateItem ==
    \E itemId \in EditItemIds, action \in ItemActions :
        /\ getUpdatedValue(action, IF itemId = QpItemId THEN editData.qp
                                   ELSE IF itemId \in DOMAIN editData.items
                                        THEN editData.items[itemId] ELSE 0) <= MaxQuantity
        /\ hookCall' = Call("updateItem", <<>>)
        /\ LocalCall(updateItem(editData, referenceData,
                                AtRender(queuedState.dirtyData, dirtyData),
                                includeOptions, itemId, action))

AddServants ==
    \E servantIds \in ServantIdLists, servantData \in NewServantUpdates :
        /\ editData.lastServantInstanceId + Len(servantIds)
               <= referenceData.lastServantInstanceId + MaxAdded
        /\ hookCall' = Call("addServants", servantIds)
        /\ LocalCall(addServants(editData, referenceData,
                                 AtRender(queuedState.dirtyData, dirtyData),
                                 includeOptions, servantIds, servantData))

AddServant ==
    \E servantData \in NewServantUpdates :
        /\ editData.lastServantInstanceId + 1 <= referenceData.lastServantInstanceId + MaxAdded
        /\ hookCall' = Call("addServant", <<>>)
        /\ LocalCall(addServant(editData, referenceData,
                                AtRender(queuedState.dirtyData, dirtyData),
                                includeOptions, servantData))

UpdateServants ==
    \E instanceIds \in InstanceIdSets, update \in ExistingServantUpdates :
        /\ hookCall' = Call("updateServants", instanceIds)
        /\ LocalCall(updateServants(editData, referenceData,
                                    AtRender(queuedState.dirtyData, dirtyData),
                                    includeOptions, instanceIds, update))

UpdateServantOrder ==
    \E instanceIds \in InstanceIdLists :
        /\ hookCall' = Call("updateServantOrder", instanceIds)
        /\ LocalCall(updateServantOrder(editData, referenceData,
                                        AtRender(queuedState.dirtyData, dirtyData),
                                        includeOptions, instanceIds))

DeleteServants ==
    \E instanceIds \in InstanceIdSets :
        /\ hookCall' = Call("deleteServants", instanceIds)
        /\ LocalCall(deleteServants(editData, referenceData,
                                    AtRender(queuedState.dirtyData, dirtyData),
                                    includeOptions, instanceIds))

UpdateSoundtracks ==
    \E soundtrackIds \in SoundtrackIdLists :
        /\ hookCall' = Call("updateSoundtracks", soundtrackIds)
        /\ LocalCall(updateSoundtracks(editData, referenceData,
                                       AtRender(queuedState.dirtyData, dirtyData),
                                       includeOptions, soundtrackIds))

\* revertChanges queues a clone of the account of the last render as the
\* edit data, and the default dirty data.
RevertChanges ==
    /\ queuedState.calls < MaxUnrenderedCalls
    /\ hookCall' = PlainCall("revertChanges")
    /\ LET after == revertChanges(hookAccount, includeOptions)
       IN  queuedState' = [queuedState EXCEPT !.editData = Some(after.editData),
                                              !.dirtyData = Some(after.dirtyData),
                                              !.calls = @ + 1]
    /\ UNCHANGED <<includeOptions, hookAccount, editData, referenceData, dirtyData,
                   loadingIndicator, persist, addVars, calcVars, planVars, serviceVars>>

\* The persistChanges call at position i is no longer awaited.
PersistWithout(i) == SubSeq(persist, 1, i - 1) \o SubSeq(persist, i + 1, Len(persist))

\* persistChanges up to its await, with the account, the edit data and the
\* dirty data of the last render: it returns at once without an account or
\* without an include option, and else sends the update.
PersistChanges ==
    /\ IF \/ ~IsDefined(hookAccount)
          \/ (/\ ~includeOptions.includeItems /\ ~includeOptions.includeServants
              /\ ~includeOptions.includeCostumes /\ ~includeOptions.includeSoundtracks)
       THEN /\ hookCall' = PersistEnded("persistChanges", "returned")
            /\ UNCHANGED <<loadingIndicator, persist>>
       ELSE LET update == persistUpdate(hookAccount, editData, dirtyData, includeOptions)
            IN  /\ Len(persist) < MaxPersistCalls
                /\ loadingIndicator' = invokeLoadingIndicator
                /\ hookCall' = [PlainCall("persistChanges") EXCEPT !.update = Some(update)]
                /\ persist' = Append(persist, [pc |-> "pending", accountId |-> update._id])
    /\ UNCHANGED <<includeOptions, hookAccount, editData, referenceData, dirtyData,
                   queuedState, addVars, calcVars, planVars, serviceVars>>

\* masterAccountService.updateAccount rejects: the finally block runs and
\* the rejection leaves persistChanges.
UpdateAccountRejects ==
    \E i \in DOMAIN persist :
        /\ persist[i].pc = "pending"
        /\ loadingIndicator' = persistChangesFinally
        /\ persist' = PersistWithout(i)
        /\ hookCall' = PersistEnded("updateAccountRejected", "rejected")
        /\ UNCHANGED <<includeOptions, hookAccount, editData, referenceData, dirtyData,
                       queuedState, addVars, calcVars, planVars, serviceVars>>

\* masterAccountService.updateAccount publishes the account the back end
\* answered with, before its promise resolves.
UpdateAccountPublishes ==
    \E i \in DOMAIN persist :
        /\ persist[i].pc = "pending"
        /\ \E updated \in {a \in HookAccounts : a._id = persist[i].accountId} :
               AccountChanged(Some(updated))
        /\ persist' = [persist EXCEPT ![i].pc = "published"]
        /\ hookCall' = PlainCall("updateAccountPublished")
        /\ UNCHANGED <<includeOptions, loadingIndicator, addVars, calcVars, planVars,
                       serviceVars>>

\* persistChanges resumes after its await: the finally block runs and the
\* promise of persistChanges resolves.
UpdateAccountResolves ==
    \E i \in DOMAIN persist :
        /\ persist[i].pc = "published"
        /\ loadingIndicator' = persistChangesFinally
        /\ persist' = PersistWithout(i)
        /\ hookCall' = PersistEnded("updateAccountResolved", "resolved")
        /\ UNCHANGED <<includeOptions, hookAccount, editData, referenceData, dirtyData,
                       queuedState, addVars, calcVars, planVars, serviceVars>>

\* The local functions of the hook, with the account changes and the
\* renders.
HookNext ==
    \/ OnCurrentMasterAccountChange
    \/ Render
    \/ UpdateCostumes
    \/ UpdateQp
    \/ UpdateItem
    \/ AddServants
    \/ AddServant
    \/ UpdateServants
    \/ UpdateServantOrder
    \/ DeleteServants
    \/ UpdateSoundtracks
    \/ RevertChanges

\* The back-end function of the hook, persistChanges, with the account
\* changes, the renders and the local functions updateCostumes, updateQp
\* and revertChanges.
PersistNext ==
    \/ OnCurrentMasterAccountChange
    \/ Render
    \/ UpdateCostumes
    \/ UpdateQp
    \/ RevertChanges
    \/ PersistChanges
    \/ UpdateAccountRejects
    \/ UpdateAccountPublishes
    \/ UpdateAccountResolves

(***************************************************************************)
(* The master account service (MasterAccountService).                      *)
(*                                                                         *)
(* An account is its _id, a non-empty string; "" is a null, undefined or   *)
(* empty account id and the null account.  The account list is Undefined   *)
(* (null) or Some(sequence of account ids).  A call of an async method is  *)
(* a record [op, arg, pc, lockId, origin, overlaps, result] in `calls`, in *)
(* the order of the invocations; pc is the await the call is suspended at  *)
(* ("http", "list", "get"; "listed" when _updateMasterAccountList has      *)
(* assigned and published the list and the method awaiting it has not gone *)
(* on yet) or "done" (resolved) or "failed" (rejected).                    *)
(***************************************************************************)

NoAccountId == ""

\* _masterAccountListContainsId(accountId).
_masterAccountListContainsId(list, accountId) ==
    IF ~IsDefined(list) \/ Len(ValueOf(list)) = 0 THEN FALSE
    ELSE \E i \in DOMAIN ValueOf(list) : ValueOf(list)[i] = accountId

\* _writeCurrentAccountToStorage(local, session): the storage after the
\* call, a record [session, local] of the ids under ActiveMasterAccountId
\* and LastMasterAccountId.
_writeCurrentAccountToStorage(storage, current, local, session) ==
    [session |-> IF session THEN current ELSE storage.session,
     local   |-> IF local THEN current ELSE storage.local]

\* _readCurrentAccountFromStorage(): the id it returns and the storage
\* after the call.
_readCurrentAccountFromStorage(storage, current) ==
    IF storage.session # NoAccountId
    THEN [result |-> storage.session, storage |-> storage]
    ELSE [result |-> storage.local,
          storage |-> IF storage.local # NoAccountId
                      THEN _writeCurrentAccountToStorage(storage, current, FALSE, TRUE)
                      ELSE storage]

\* Mutant: the id in storage is not consulted.
_autoSelectAccount_FirstOnly(list, current, storage) ==
    IF ~IsDefined(list) \/ Len(ValueOf(list)) = 0
    THEN [select |-> TRUE, accountId |-> NoAccountId, storage |-> storage]
    ELSE IF current # NoAccountId /\ _masterAccountListContainsId(list, current)
    THEN [select |-> FALSE, accountId |-> NoAccountId, storage |-> storage]
    ELSE [select |-> TRUE, accountId |-> ValueOf(list)[1], storage |-> storage]

\* _autoSelectAccount(): whether it calls selectAccount, the id it passes
\* and the storage after reading from it.
_autoSelectAccount(list, current, storage) ==
    IF ~IsDefined(list) \/ Len(ValueOf(list)) = 0
    THEN [select |-> TRUE, accountId |-> NoAccountId, storage |-> storage]
    ELSE IF current # NoAccountId /\ _masterAccountListContainsId(list, current)
    THEN [select |-> FALSE, accountId |-> NoAccountId, storage |-> storage]
    ELSE LET read == _readCurrentAccountFromStorage(storage, current)
         IN  IF read.result # NoAccountId /\ _masterAccountListContainsId(list, read.result)
             THEN [select |-> TRUE, accountId |-> read.result, storage |-> read.storage]
             ELSE [select |-> TRUE, accountId |-> ValueOf(list)[1], storage |-> read.storage]

\* UserInterfaceService.requestLock and releaseLock on the LoadingIndicator
\* feature.  The locks are a record [held, log]: the set of lock ids that
\* are held and, by lock id, the method that requested the lock and how
\* often it was released.  A new lock gets the next id.
requestLock(lockState, op) ==
    [held |-> lockState.held \cup {Len(lockState.log) + 1},
     log |-> Append(lockState.log, [op |-> op, releases |-> 0])]

releaseLock(lockState, lockId) ==
    [held |-> lockState.held \ {lockId},
     log |-> [lockState.log EXCEPT ![lockId].releases = @ + 1]]

\* Mutant: the lock is released in the try block, after the awaits, and
\* not when one of them rejects.
FinallyReleaseLock_OnSuccessOnly(lockState, lockId, rejected) ==
    IF rejected THEN lockState ELSE releaseLock(lockState, lockId)

\* The finally block of addAccount, updateAccount, deleteAccount and
\* _handleCurrentUserChange.
FinallyReleaseLock(lockState, lockId, rejected) == releaseLock(lockState, lockId)

\* The state of the service: the fields of the object, the values published
\* on CurrentMasterAccountChange, the storage and the locks.
ServiceCall(op, arg, at, lockId, origin, overlaps, returned) ==
    [op |-> op, arg |-> arg, pc |-> at, lockId |-> lockId, origin |-> origin,
     overlaps |-> overlaps, result |-> returned]

IsPending(call) == call.pc \in {"http", "list", "listed", "get"}

\* selectAccount(accountId) up to its first await, on a service state
\* [current, published, storage]: the state after it and the call record.
selectAccount(state, accountId, origin, overlaps) ==
    IF accountId = NoAccountId
    THEN [current |-> NoAccountId,
          published |-> Append(state.published, NoAccountId),
          storage |-> _writeCurrentAccountToStorage(state.storage, NoAccountId, TRUE, TRUE),
          call |-> ServiceCall("selectAccount", accountId, "done", 0, origin, overlaps,
                               NoAccountId)]
    ELSE IF state.current = accountId
    THEN [current |-> state.current, published |-> state.published,
          storage |-> state.storage,
          call |-> ServiceCall("selectAccount", accountId, "done", 0, origin, overlaps,
                               state.current)]
    ELSE [current |-> state.current, published |-> state.published,
          storage |-> state.storage,
          call |-> ServiceCall("selectAccount", accountId, "list", 0, origin, overlaps,
                               NoAccountId)]

\* _autoSelectAccount() at the end of a method `op`: the state after it, the
\* call of selectAccount it leaves behind and the decision it took.
AutoSelect(state, list, op, overlaps) ==
    LET decision == _autoSelectAccount(list, state.current, state.storage)
        read == [state EXCEPT !.storage = decision.storage]
        selected == selectAccount(read, decision.accountId, op, overlaps)
    IN  IF decision.select
        THEN [current |-> selected.current, published |-> selected.published,
              storage |-> selected.storage, call |-> selected.call, decision |-> decision]
        ELSE [current |-> state.current, published |-> state.published,
              storage |-> decision.storage,
              call |-> ServiceCall(op, NoAccountId, "done", 0, op, overlaps, NoAccountId),
              decision |-> decision]

(***************************************************************************)
(* Service inputs and actions.                                             *)
(***************************************************************************)

\* Most calls made on the service.
MaxCalls == 2

AccountIds == {"a", "b"}
\* The account lists the back end answers with.
ServerLists == {<<>>, <<"a", "b">>, <<"b">>}

NoDecision == [select |-> FALSE, accountId |-> NoAccountId,
               storage |-> [session |-> NoAccountId, local |-> NoAccountId]]
NoAutoSelect ==
    [ran |-> FALSE, list |-> Undefined, current |-> NoAccountId,
     storage |-> [session |-> NoAccountId, local |-> NoAccountId], decision |-> NoDecision]

InitServiceIdle ==
    /\ currentMasterAccount = NoAccountId
    /\ masterAccountList = Undefined
    /\ published = <<>>
    /\ webStorage = [session |-> NoAccountId, local |-> NoAccountId]
    /\ locks = [held |-> {}, log |-> <<>>]
    /\ calls = <<>>
    /\ autoSelected = NoAutoSelect

\* The service of a page that was just loaded; the storage holds what an
\* earlier page or another tab left in it.
InitService ==
    /\ currentMasterAccount = NoAccountId
    /\ masterAccountList = Undefined
    /\ published = <<>>
    /\ webStorage \in [session : AccountIds \cup {NoAccountId},
                    local : AccountIds \cup {NoAccountId}]
    /\ locks = [held |-> {}, log |-> <<>>]
    /\ calls = <<>>
    /\ autoSelected = NoAutoSelect

ServiceState ==
    [current |-> currentMasterAccount, published |-> published, storage |-> webStorage]

\* A call is in flight.
Overlaps == \E i \in DOMAIN calls : IsPending(calls[i])
OverlapsOther(i) == \E j \in DOMAIN calls : j # i /\ IsPending(calls[j])

NotService == <<addVars, calcVars, planVars, hookVars>>

\* The next lock id.
NextLockId == Len(locks.log) + 1

\* addAccount, updateAccount and deleteAccount up to the first await.
AddAccount ==
    /\ Len(calls) < MaxCalls
    /\ locks' = requestLock(locks, "addAccount")
    /\ calls' = Append(calls, ServiceCall("addAccount", NoAccountId, "http", NextLockId,
                                          "user", Overlaps, NoAccountId))
    /\ UNCHANGED <<currentMasterAccount, masterAccountList, published, webStorage,
                   autoSelected, NotService>>

UpdateAccount ==
    \E accountId \in AccountIds :
        /\ Len(calls) < MaxCalls
        /\ locks' = requestLock(locks, "updateAccount")
        /\ calls' = Append(calls, ServiceCall("updateAccount", accountId, "http", NextLockId,
                                              "user", Overlaps, NoAccountId))
        /\ UNCHANGED <<currentMasterAccount, masterAccountList, published, webStorage,
                       autoSelected, NotService>>

DeleteAccount ==
    \E accountId \in AccountIds :
        /\ Len(calls) < MaxCalls
        /\ locks' = requestLock(locks, "deleteAccount")
        /\ calls' = Append(calls, ServiceCall("deleteAccount", accountId, "http", NextLockId,
                                              "user", Overlaps, NoAccountId))
        /\ UNCHANGED <<currentMasterAccount, masterAccountList, published, webStorage,
                       autoSelected, NotService>>

\* selectAccount up to its first await.
SelectAccount ==
    \E accountId \in AccountIds \cup {NoAccountId} :
        /\ Len(calls) < MaxCalls
        /\ LET selected == selectAccount(ServiceState, accountId, "user", Overlaps)
           IN  /\ currentMasterAccount' = selected.current
               /\ published' = selected.published
               /\ webStorage' = selected.storage
               /\ calls' = Append(calls, selected.call)
        /\ UNCHANGED <<masterAccountList, locks, autoSelected, NotService>>

\* reloadCurrentAccount up to its first await.
ReloadCurrentAccount ==
    /\ Len(calls) < MaxCalls
    /\ calls' = Append(calls,
           IF currentMasterAccount = NoAccountId
           THEN ServiceCall("reloadCurrentAccount", NoAccountId, "done", 0, "user", Overlaps,
                            NoAccountId)
           ELSE ServiceCall("reloadCurrentAccount", currentMasterAccount, "get", 0, "user",
                            Overlaps, NoAccountId))
    /\ UNCHANGED <<currentMasterAccount, masterAccountList, published, webStorage, locks,
                   autoSelected, NotService>>

\* _handleCurrentUserChange up to its first await; userInfo is null or not.
HandleCurrentUserChange ==
    \E userInfo \in BOOLEAN :
        /\ Len(calls) < MaxCalls
        /\ IF ~userInfo
           THEN /\ currentMasterAccount' = NoAccountId
                /\ published' = Append(published, NoAccountId)
                /\ masterAccountList' = Undefined
                /\ calls' = Append(calls, ServiceCall("_handleCurrentUserChange", NoAccountId,
                                                      "done", 0, "user", Overlaps, NoAccountId))
                /\ UNCHANGED locks
           ELSE /\ locks' = requestLock(locks, "_handleCurrentUserChange")
                /\ calls' = Append(calls, ServiceCall("_handleCurrentUserChange", NoAccountId,
                                                      "list", NextLockId, "user", Overlaps,
                                                      NoAccountId))
                /\ UNCHANGED <<currentMasterAccount, published, masterAccountList>>
        /\ UNCHANGED <<webStorage, autoSelected, NotService>>

\* The focus listener of the constructor.
OnWindowFocus ==
    /\ webStorage' = _writeCurrentAccountToStorage(webStorage, currentMasterAccount, TRUE, FALSE)
    /\ UNCHANGED <<currentMasterAccount, masterAccountList, published, locks, calls,
                   autoSelected, NotService>>

\* Http.put, Http.post or Http.delete resolves: the call goes on to
\* _updateMasterAccountList.  An added account gets an id of the back end.
HttpResolves ==
    \E i \in DOMAIN calls, newId \in AccountIds :
        /\ calls[i].pc = "http"
        /\ calls[i].op # "addAccount" => newId = calls[i].arg
        /\ calls' = [calls EXCEPT ![i].pc = "list", ![i].result = newId]
        /\ UNCHANGED <<currentMasterAccount, masterAccountList, published, webStorage, locks,
                       autoSelected, NotService>>

\* Http.put, Http.post or Http.delete rejects: the finally block runs and
\* the call rejects.
HttpRejects ==
    \E i \in DOMAIN calls :
        /\ calls[i].pc = "http"
        /\ locks' = FinallyReleaseLock(locks, calls[i].lockId, TRUE)
        /\ calls' = [calls EXCEPT ![i].pc = "failed", ![i].result = NoAccountId]
        /\ UNCHANGED <<currentMasterAccount, masterAccountList, published, webStorage,
                       autoSelected, NotService>>

\* The call ends with _autoSelectAccount(): the selectAccount call it makes
\* takes the place of the call when it is in flight.
EndWithAutoSelect(i, list) ==
    LET auto == AutoSelect(ServiceState, list, calls[i].op, OverlapsOther(i))
    IN  /\ currentMasterAccount' = auto.current
        /\ published' = auto.published
        /\ webStorage' = auto.storage
        /\ calls' = [calls EXCEPT ![i] =
                        IF auto.decision.select /\ IsPending(auto.call) THEN auto.call
                        ELSE [@ EXCEPT !.pc = "done"]]
        /\ autoSelected' = [ran |-> TRUE, list |-> list, current |-> currentMasterAccount,
                            storage |-> webStorage, decision |-> auto.decision]

\* getAccountsForCurrentUser resolves in _updateMasterAccountList: the list
\* is assigned and published on MasterAccountListChange; the method that
\* awaits _updateMasterAccountList goes on later.
ListResolves ==
    \E i \in DOMAIN calls, list \in ServerLists :
        /\ calls[i].pc = "list"
        /\ masterAccountList' = Some(list)
        /\ calls' = [calls EXCEPT ![i].pc = "listed"]
        /\ UNCHANGED <<currentMasterAccount, published, webStorage, locks, autoSelected,
                       NotService>>

\* The method that awaited _updateMasterAccountList goes on: the finally
\* block and the code after the try statement.
ListContinues ==
    \E i \in DOMAIN calls :
        /\ calls[i].pc = "listed"
        /\ CASE calls[i].op \in {"addAccount", "deleteAccount", "_handleCurrentUserChange"} ->
                  /\ locks' = FinallyReleaseLock(locks, calls[i].lockId, FALSE)
                  /\ EndWithAutoSelect(i, masterAccountList)
             [] calls[i].op = "updateAccount" ->
                  /\ locks' = FinallyReleaseLock(locks, calls[i].lockId, FALSE)
                  /\ currentMasterAccount' = calls[i].result
                  /\ published' = Append(published, calls[i].result)
                  /\ calls' = [calls EXCEPT ![i].pc = "done"]
                  /\ UNCHANGED <<webStorage, autoSelected>>
             [] calls[i].op = "selectAccount" ->
                  /\ calls' = [calls EXCEPT ![i].pc = "get"]
                  /\ UNCHANGED <<currentMasterAccount, published, webStorage, locks, autoSelected>>
             [] calls[i].op = "reloadCurrentAccount" ->
                  /\ currentMasterAccount' = calls[i].result
                  /\ published' = Append(published, calls[i].result)
                  /\ calls' = [calls EXCEPT ![i].pc = "done"]
                  /\ UNCHANGED <<webStorage, locks, autoSelected>>
        /\ UNCHANGED <<masterAccountList, NotService>>

\* getAccountsForCurrentUser rejects: addAccount, updateAccount and
\* deleteAccount reject after their finally block, the other methods catch
\* the error.
ListRejects ==
    \E i \in DOMAIN calls :
        /\ calls[i].pc = "list"
        /\ IF calls[i].op \in {"addAccount", "updateAccount", "deleteAccount"}
           THEN /\ locks' = FinallyReleaseLock(locks, calls[i].lockId, TRUE)
                /\ calls' = [calls EXCEPT ![i].pc = "failed", ![i].result = NoAccountId]
           ELSE IF calls[i].op = "_handleCurrentUserChange"
           THEN /\ locks' = FinallyReleaseLock(locks, calls[i].lockId, TRUE)
                /\ calls' = [calls EXCEPT ![i].pc = "done"]
           ELSE /\ calls' = [calls EXCEPT ![i].pc = "done", ![i].result = NoAccountId]
                /\ UNCHANGED locks
        /\ UNCHANGED <<currentMasterAccount, masterAccountList, published, webStorage,
                       autoSelected, NotService>>

\* getAccount resolves with the account of the requested id.
GetResolves ==
    \E i \in DOMAIN calls :
        /\ calls[i].pc = "get"
        /\ IF calls[i].op = "selectAccount"
           THEN /\ currentMasterAccount' = calls[i].arg
                /\ published' = Append(published, calls[i].arg)
                /\ webStorage' = _writeCurrentAccountToStorage(webStorage, calls[i].arg, TRUE, TRUE)
                /\ calls' = [calls EXCEPT ![i].pc = "done", ![i].result = calls[i].arg]
           ELSE /\ calls' = [calls EXCEPT ![i].pc = "list", ![i].result = calls[i].arg]
                /\ UNCHANGED <<currentMasterAccount, published, webStorage>>
        /\ UNCHANGED <<masterAccountList, locks, autoSelected, NotService>>

\* getAccount rejects: selectAccount and reloadCurrentAccount catch the
\* error and resolve with null.
GetRejects ==
    \E i \in DOMAIN calls :
        /\ calls[i].pc = "get"
        /\ calls' = [calls EXCEPT ![i].pc = "done", ![i].result = NoAccountId]
        /\ UNCHANGED <<currentMasterAccount, masterAccountList, published, webStorage, locks,
                       autoSelected, NotService>>

ServiceNext ==
    \/ AddAccount
    \/ UpdateAccount
    \/ DeleteAccount
    \/ SelectAccount
    \/ ReloadCurrentAccount
    \/ HandleCurrentUserChange
    \/ OnWindowFocus
    \/ HttpResolves
    \/ HttpRejects
    \/ ListResolves
    \/ ListContinues
    \/ ListRejects
    \/ GetResolves
    \/ GetRejects

(***************************************************************************)
(* Specifications.                                                         *)
(***************************************************************************)

Init == InitAddIdle /\ InitCalcIdle /\ InitPlan /\ InitHookIdle /\ InitServiceIdle
Next == ComputePlanRequirements \/ ComputePreviousPlan \/ ComputeTargetPlan
Spec == Init /\ [][Next]_vars

ChainInit == InitAddIdle /\ InitCalcIdle /\ InitChain /\ InitHookIdle /\ InitServiceIdle
ChainSpec == ChainInit /\ [][Next]_vars

AddInit == InitAdd /\ InitCalcIdle /\ InitPlanIdle /\ InitHookIdle /\ InitServiceIdle
AddNext ==
    \/ AddEnhancementRequirements
    \/ SumEnhancementRequirements
    \/ AddRequirementsToBuckets
AddSpec == AddInit /\ [][AddNext]_vars

CalcInit == InitAddIdle /\ InitCalc /\ InitPlanIdle /\ InitHookIdle /\ InitServiceIdle
CalcNext ==
    \/ ComputeServantEnhancementRequirements
    \/ ComputeServantEnhancementRequirementsPublic
CalcSpec == CalcInit /\ [][CalcNext]_vars

HookInit ==
    /\ InitAddIdle /\ InitCalcIdle /\ InitPlanIdle /\ InitHook /\ InitServiceIdle
    /\ includeOptions \in HookOptions
HookSpec == HookInit /\ [][HookNext]_vars

PersistInit ==
    /\ InitAddIdle /\ InitCalcIdle /\ InitPlanIdle /\ InitHook /\ InitServiceIdle
    /\ includeOptions \in PersistOptions
PersistSpec == PersistInit /\ [][PersistNext]_vars

ServiceInit ==
    InitAddIdle /\ InitCalcIdle /\ InitPlanIdle /\ InitHookIdle /\ InitService
ServiceSpec == ServiceInit /\ [][ServiceNext]_vars

(***************************************************************************)
(* Expected costs, written from the catalog tables.                        *)
(***************************************************************************)

Quantity(enhancement, itemId) ==
    IF itemId \in DOMAIN enhancement.materials THEN enhancement.materials[itemId] ELSE 0

\* The sum over `levels` of weight[level] times the quantity of an item.
RECURSIVE WeightedQuantity(_, _, _, _)
WeightedQuantity(table, levels, weight, itemId) ==
    IF levels = {} THEN 0
    ELSE LET level == CHOOSE l \in levels : TRUE
         IN  Quantity(table[level], itemId) * weight[level]
             + WeightedQuantity(table, levels \ {level}, weight, itemId)

\* The sum over `levels` of weight[level] times the currency of the level.
RECURSIVE WeightedQp(_, _, _)
WeightedQp(table, levels, weight) ==
    IF levels = {} THEN 0
    ELSE LET level == CHOOSE l \in levels : TRUE
         IN  table[level].qp * weight[level] + WeightedQp(table, levels \ {level}, weight)

Once(levels) == [level \in levels |-> 1]

\* The ascension breakpoints strictly above `current` and at most `target`.
AscensionBreakpoints(gameServant, current, target) ==
    {level \in DOMAIN gameServant.ascensionMaterials : current < level /\ level <= target}

\* The number of slots with current <= level < target, a missing entry
\* counting as 0.
SlotCount(currentSkills, targetSkills, level) ==
    Cardinality({slot \in 1..3 :
        OrZero(currentSkills[slot]) <= level /\ level < OrZero(targetSkills[slot])})

\* The skill levels that are charged: all of them, but for the last step
\* when the lores are excluded.
ChargedSkillLevels(table, excludeLores) ==
    {level \in DOMAIN table : ~(Truthy(excludeLores) /\ level = MaxSkillLevel - 1)}

SlotCounts(table, currentSkills, targetSkills, excludeLores) ==
    [level \in ChargedSkillLevels(table, excludeLores) |->
        SlotCount(currentSkills, targetSkills, level)]

\* The costumes of the catalog that are charged.
ChargedCostumes(gameServant, currentCostumes, targetCostumes) ==
    {costumeId \in DOMAIN gameServant.costumes :
        /\ costumeId \notin currentCostumes
        /\ (~IsDefined(targetCostumes) \/ costumeId \in ValueOf(targetCostumes))}

CostumeTable(gameServant) ==
    [costumeId \in DOMAIN gameServant.costumes |-> gameServant.costumes[costumeId].materials]

\* The subtotal of an item on an axis, 0 when the record has no entry.
Subtotal(requirements, itemId, axis) ==
    IF itemId \in DOMAIN requirements.items THEN requirements.items[itemId][axis] ELSE 0

AxisIsZero(requirements, axis) ==
    \A itemId \in DOMAIN requirements.items : requirements.items[itemId][axis] = 0

CalcOptions == IF IsDefined(calcIn.options) THEN ValueOf(calcIn.options) ELSE _defaultOptions

CalcReturned == calcPc = "returned"

\* Only the given axis is enabled in the options of the computation.
OnlyAxis(axis) ==
    /\ Truthy(CalcOptions.includeAscensions) <=> axis = "ascensions"
    /\ Truthy(CalcOptions.includeSkills) <=> axis = "skills"
    /\ Truthy(CalcOptions.includeAppendSkills) <=> axis = "appendSkills"
    /\ Truthy(CalcOptions.includeCostumes) <=> axis = "costumes"

(***************************************************************************)
(* Requirement addition (AddSpec).                                         *)
(***************************************************************************)

\* C3: addition is commutative and associative: the target after
\* addEnhancementRequirements(A, B) equals the target after
\* addEnhancementRequirements(B, A) in every field, and
\* sumEnhancementRequirements([A, B, C]) equals add(add(A, B), C), which
\* equals add(A, add(B, C)).
C3_AdditionCommutesAndAssociates ==
    /\ addPc.added => addOut.ab = addOut.ba
    /\ addPc.summed =>
        /\ addOut.sumABC =
             addEnhancementRequirements(
                 addEnhancementRequirements(addIn[1], addIn[2]), addIn[3])
        /\ addOut.sumABC =
             addEnhancementRequirements(addIn[1],
                 addEnhancementRequirements(addIn[2], addIn[3]))

\* A and B are different records that share item 7 with different entries,
\* B alone has item 8, and both additions and the sum have run.
C3_Witness ==
    /\ addPc.added /\ addPc.summed
    /\ addIn[1].items = (7 :> ItemEntryA)
    /\ addIn[2].items = (7 :> ItemEntryB @@ 8 :> ItemEntryB)
    /\ addIn[1].qp # addIn[2].qp
    /\ addIn[3].items # EmptyMap
    /\ addOut.ab.items[7].total = 7

\* C4: the all-zero record is the identity: sumEnhancementRequirements([])
\* is the record with qp 0, every ember counter 0 and no item, and
\* addEnhancementRequirements(X, zero) leaves X as it was.
C4_ZeroIsIdentity ==
    /\ addPc.summed =>
        /\ addOut.sumEmpty.qp = 0
        /\ \A rarity \in 1..5 : addOut.sumEmpty.embers[rarity] = 0
        /\ DOMAIN addOut.sumEmpty.embers = 1..5
        /\ DOMAIN addOut.sumEmpty.items = {}
    /\ addPc.added => addOut.aZero = addIn[1]

\* X has items, currency and embers, and zero has been added to it.
C4_Witness ==
    /\ addPc.added /\ addPc.summed
    /\ addIn[1].qp = 100
    /\ addIn[1].embers[5] = 5
    /\ DOMAIN addIn[1].items = {7, 8}
    /\ addOut.aZero.qp = 100

(***************************************************************************)
(* One servant computation (CalcSpec).                                     *)
(***************************************************************************)

CalcServant == Catalog[calcIn.gameId]

\* C5: for skills and for append skills, every catalog level entry L adds
\* its material quantities and its currency times the number of slots with
\* current <= L < target (a missing entry counting as 0), and nothing when
\* that number is 0; the last level step is left out when the lores are
\* excluded.  Currents (1,1,1) with targets (2,2,2) and a step cost of
\* {material 7: 3, currency 100} give a skills subtotal of 9 and currency 300.
C5_SkillLevelCounting ==
    CalcReturned =>
        /\ Truthy(CalcOptions.includeSkills) =>
             \A itemId \in ItemIds :
                 Subtotal(calcOut, itemId, "skills") =
                     WeightedQuantity(CalcServant.skillMaterials,
                         ChargedSkillLevels(CalcServant.skillMaterials, CalcOptions.excludeLores),
                         SlotCounts(CalcServant.skillMaterials, calcIn.current.skills,
                                    calcIn.target.skills, CalcOptions.excludeLores),
                         itemId)
        /\ Truthy(CalcOptions.includeAppendSkills) =>
             \A itemId \in ItemIds :
                 Subtotal(calcOut, itemId, "appendSkills") =
                     WeightedQuantity(CalcServant.appendSkillMaterials,
                         ChargedSkillLevels(CalcServant.appendSkillMaterials, CalcOptions.excludeLores),
                         SlotCounts(CalcServant.appendSkillMaterials, calcIn.current.appendSkills,
                                    calcIn.target.appendSkills, CalcOptions.excludeLores),
                         itemId)
        /\ OnlyAxis("skills") =>
             calcOut.qp =
                 WeightedQp(CalcServant.skillMaterials,
                     ChargedSkillLevels(CalcServant.skillMaterials, CalcOptions.excludeLores),
                     SlotCounts(CalcServant.skillMaterials, calcIn.current.skills,
                                calcIn.target.skills, CalcOptions.excludeLores))
        /\ OnlyAxis("appendSkills") =>
             calcOut.qp =
                 WeightedQp(CalcServant.appendSkillMaterials,
                     ChargedSkillLevels(CalcServant.appendSkillMaterials, CalcOptions.excludeLores),
                     SlotCounts(CalcServant.appendSkillMaterials, calcIn.current.appendSkills,
                                calcIn.target.appendSkills, CalcOptions.excludeLores))
        /\ ( /\ calcIn.gameId = 1
             /\ OnlyAxis("skills")
             /\ calcIn.current.skills = <<1, 1, 1>>
             /\ calcIn.target.skills = <<2, 2, 2>> ) =>
                 /\ calcOut.items[7].skills = 9
                 /\ calcOut.qp = 300

\* Currents (3,5,7) with targets (10,10,10): two slots need level 6, and the
\* skills have been computed with the lores included.
C5_Witness ==
    /\ CalcReturned
    /\ calcIn.gameId = 1
    /\ OnlyAxis("skills")
    /\ ~Truthy(CalcOptions.excludeLores)
    /\ calcIn.current.skills = <<3, 5, 7>>
    /\ calcIn.target.skills = <<10, 10, 10>>
    /\ SlotCount(calcIn.current.skills, calcIn.target.skills, 6) = 2
    /\ calcOut.items[9].skills = 3
    /\ calcOut.items[8].skills = 24

\* C6: with ascensions enabled and a defined target ascension, the ascension
\* subtotal is the sum of the one-time costs of the catalog breakpoints L
\* with current < L <= target (a missing current counting as 0); it is zero
\* when target <= current or the target ascension is undefined.
C6_AscensionBreakpoints ==
    (CalcReturned /\ Truthy(CalcOptions.includeAscensions)) =>
        LET current == OrZero(calcIn.current.ascension)
            target  == calcIn.target.ascension
        IN  /\ target # Null =>
                 LET levels == AscensionBreakpoints(CalcServant, current, target)
                 IN  /\ \A itemId \in ItemIds :
                            Subtotal(calcOut, itemId, "ascensions") =
                                WeightedQuantity(CalcServant.ascensionMaterials, levels,
                                                 Once(levels), itemId)
                     /\ OnlyAxis("ascensions") =>
                            calcOut.qp = WeightedQp(CalcServant.ascensionMaterials, levels,
                                                    Once(levels))
            /\ (target = Null \/ target <= current) =>
                 /\ AxisIsZero(calcOut, "ascensions")
                 /\ OnlyAxis("ascensions") => calcOut.qp = 0

\* A servant without a current ascension is taken from 0 to 3: the
\* breakpoints 1, 2 and 3 are charged once each.
C6_Witness ==
    /\ CalcReturned
    /\ calcIn.gameId = 1
    /\ OnlyAxis("ascensions")
    /\ calcIn.current.ascension = Null
    /\ calcIn.target.ascension = 3
    /\ calcOut.items[7].ascensions = 6
    /\ calcOut.items[8].ascensions = 1
    /\ calcOut.qp = 6000

\* C7: with costumes enabled, a catalog costume's cost is added once to the
\* costumes subtotal if and only if the costume is not in currentCostumes
\* and the target costume set is undefined or contains it; a costume in
\* currentCostumes adds nothing whether or not it is targeted.
C7_CostumeCharging ==
    (CalcReturned /\ Truthy(CalcOptions.includeCostumes)) =>
        LET charged == ChargedCostumes(CalcServant, calcIn.currentCostumes,
                                       calcIn.targetCostumes)
        IN  /\ \A itemId \in ItemIds :
                   Subtotal(calcOut, itemId, "costumes") =
                       WeightedQuantity(CostumeTable(CalcServant), charged,
                                        Once(charged), itemId)
            /\ OnlyAxis("costumes") =>
                   calcOut.qp = WeightedQp(CostumeTable(CalcServant), charged, Once(charged))
            /\ (DOMAIN CalcServant.costumes \subseteq calcIn.currentCostumes) =>
                   AxisIsZero(calcOut, "costumes")

\* Costume 11 is unlocked and targeted, costume 12 is targeted and not
\* unlocked: only costume 12 is charged.
C7_Witness ==
    /\ CalcReturned
    /\ calcIn.gameId = 1
    /\ OnlyAxis("costumes")
    /\ calcIn.currentCostumes = {11}
    /\ calcIn.targetCostumes = Some({11, 12})
    /\ DOMAIN calcOut.items = {8}
    /\ calcOut.items[8].costumes = 4
    /\ calcOut.qp = 5000

\* C8: with includeAscensions false the record does not depend on the
\* current and target ascension: the computation with any other current
\* and target ascension returns the same record, and every item's
\* ascensions subtotal is 0.
C8_DisabledAscensionsIndependent ==
    (CalcReturned /\ ~Truthy(CalcOptions.includeAscensions)) =>
        /\ \A other \in AscensionCases :
               CalcResult([calcIn EXCEPT !.current.ascension = other.current,
                                         !.target.ascension = other.target]) = calcOut
        /\ AxisIsZero(calcOut, "ascensions")

\* Ascensions are disabled while current < target, and the other axes have
\* produced a cost.
C8_Witness ==
    /\ CalcReturned
    /\ calcIn.gameId = 1
    /\ IsDefined(calcIn.options)
    /\ CalcOptions.includeAscensions = "false"
    /\ Truthy(CalcOptions.includeSkills)
    /\ calcIn.current.ascension = 1
    /\ calcIn.target.ascension = 4
    /\ calcOut.items[7].skills = 9
    /\ calcOut.items[7].ascensions = 0

(***************************************************************************)
(* The walk over the plans (Spec).                                         *)
(***************************************************************************)

Done == pc = "done"

\* The servants of the roster with an instance id.
RosterServants(instanceId) ==
    {masterAccount.servants[k] : k \in {j \in DOMAIN masterAccount.servants :
        masterAccount.servants[j].instanceId = instanceId}}

\* A plan servant that is enabled, in the roster and in the catalog.
Computable(planServant) ==
    /\ planServant.enabled.servant
    /\ \E masterServant \in RosterServants(planServant.instanceId) :
           masterServant.gameId \in DOMAIN gameServantMap

IsComputableFor(planServant, instanceId) ==
    Computable(planServant) /\ planServant.instanceId = instanceId

\* The computable entries of a plan for an instance id, in plan order.
EntriesOf(plan, instanceId) ==
    SelectSeq(plan.servants, LAMBDA planServant : IsComputableFor(planServant, instanceId))

ComputableEntries(plan) == SelectSeq(plan.servants, Computable)

\* The computable entries for an instance id in the first n preceding plans.
RECURSIVE PrecedingEntries(_, _)
PrecedingEntries(instanceId, n) ==
    IF n = 0 THEN <<>>
    ELSE PrecedingEntries(instanceId, n - 1) \o EntriesOf(previousPlans[n], instanceId)

GameServantOf(instanceId) ==
    gameServantMap[(CHOOSE masterServant \in RosterServants(instanceId) : TRUE).gameId]

\* The options chosen by the call: the override, else the target plan's.
PlanLevelOptions ==
    IF IsDefined(optionsOverride) THEN ValueOf(optionsOverride)
    ELSE [includeAscensions   |-> FromBoolean(targetPlan.enabled.ascensions),
          includeSkills       |-> FromBoolean(targetPlan.enabled.skills),
          includeAppendSkills |-> FromBoolean(targetPlan.enabled.appendSkills),
          includeCostumes     |-> FromBoolean(targetPlan.enabled.costumes),
          excludeLores        |-> "undefined"]

\* C1: a servant computed in a preceding plan and once in the target plan is
\* charged in the target plan from the target state of its last preceding
\* entry, not from the roster state: on every enabled axis among
\* ascensions, skills and append skills the servant's requirements (and the
\* target-plan bucket when it is the plan's only computed servant) hold the
\* cost from that target state to the new one.  Roster ascension 0, preceding
\* target 2 and target 4 give the breakpoints 3 and 4 only.
C1_ChainBaseline ==
    Done =>
        \A instanceId \in DOMAIN result.servants :
            LET preceding == PrecedingEntries(instanceId, Len(previousPlans))
                entries   == EntriesOf(targetPlan, instanceId)
            IN  (preceding # <<>> /\ Len(entries) = 1) =>
                LET baseline    == preceding[Len(preceding)]
                    planServant == entries[1]
                    gameServant == GameServantOf(instanceId)
                    own         == result.servants[instanceId].requirements
                    alone       == Len(ComputableEntries(targetPlan)) = 1
                    levels      == AscensionBreakpoints(gameServant,
                                       OrZero(baseline.ascension), planServant.ascension)
                IN  /\ ( /\ Truthy(PlanLevelOptions.includeAscensions)
                         /\ planServant.enabled.ascensions
                         /\ planServant.ascension # Null ) =>
                         \A itemId \in ItemIds :
                             LET expected == WeightedQuantity(gameServant.ascensionMaterials,
                                                 levels, Once(levels), itemId)
                             IN  /\ Subtotal(own, itemId, "ascensions") = expected
                                 /\ alone =>
                                      Subtotal(result.targetPlan, itemId, "ascensions") = expected
                    /\ ( /\ Truthy(PlanLevelOptions.includeSkills)
                         /\ planServant.enabled.skills
                         /\ ~Truthy(PlanLevelOptions.excludeLores) ) =>
                         \A itemId \in ItemIds :
                             LET expected == WeightedQuantity(gameServant.skillMaterials,
                                                 DOMAIN gameServant.skillMaterials,
                                                 SlotCounts(gameServant.skillMaterials,
                                                     baseline.skills, planServant.skills, "false"),
                                                 itemId)
                             IN  /\ Subtotal(own, itemId, "skills") = expected
                                 /\ alone =>
                                      Subtotal(result.targetPlan, itemId, "skills") = expected
                    /\ ( /\ Truthy(PlanLevelOptions.includeAppendSkills)
                         /\ planServant.enabled.appendSkills
                         /\ ~Truthy(PlanLevelOptions.excludeLores) ) =>
                         \A itemId \in ItemIds :
                             LET expected == WeightedQuantity(gameServant.appendSkillMaterials,
                                                 DOMAIN gameServant.appendSkillMaterials,
                                                 SlotCounts(gameServant.appendSkillMaterials,
                                                     baseline.appendSkills,
                                                     planServant.appendSkills, "false"),
                                                 itemId)
                             IN  /\ Subtotal(own, itemId, "appendSkills") = expected
                                 /\ alone =>
                                      Subtotal(result.targetPlan, itemId, "appendSkills") = expected
                    /\ ( /\ Truthy(PlanLevelOptions.includeAscensions)
                         /\ alone
                         /\ gameServant = GameServant1
                         /\ baseline.ascension = 2
                         /\ planServant.enabled.ascensions
                         /\ planServant.ascension = 4 ) =>
                         /\ result.targetPlan.items[7].ascensions = 3 + 4
                         /\ result.targetPlan.items[8].ascensions = 1 + 1

\* Roster ascension 0, a preceding plan to ascension 2 and the target plan
\* to ascension 4: the target-plan bucket holds the breakpoints 3 and 4, and
\* the preceding bucket the breakpoints 1 and 2.
C1_Witness ==
    /\ Done
    /\ masterAccount.servants[1].ascension = 0
    /\ Len(previousPlans) = 1
    /\ previousPlans[1].servants = <<ToAscension2>>
    /\ previousPlans[1].enabled.ascensions
    /\ targetPlan.servants = <<ToAscension4>>
    /\ targetPlan.enabled.ascensions
    /\ optionsOverride = Undefined
    /\ result.targetPlan.items[7].ascensions = 7
    /\ result.previousPlans[1].items[7].ascensions = 3

\* C2: an axis of a plan servant is computed only if it is enabled both at
\* plan level and in the plan servant's own flags: a target plan whose only
\* computed servant has an axis disabled at either level has a zero
\* subtotal on that axis.
C2_AxisEnabledAtBothLevels ==
    (Done /\ Len(ComputableEntries(targetPlan)) = 1) =>
        LET planServant == ComputableEntries(targetPlan)[1]
        IN  /\ (~Truthy(PlanLevelOptions.includeAscensions) \/ ~planServant.enabled.ascensions)
                   => AxisIsZero(result.targetPlan, "ascensions")
            /\ (~Truthy(PlanLevelOptions.includeSkills) \/ ~planServant.enabled.skills)
                   => AxisIsZero(result.targetPlan, "skills")
            /\ (~Truthy(PlanLevelOptions.includeAppendSkills) \/ ~planServant.enabled.appendSkills)
                   => AxisIsZero(result.targetPlan, "appendSkills")
            /\ (~Truthy(PlanLevelOptions.includeCostumes) \/ ~planServant.enabled.costumes)
                   => AxisIsZero(result.targetPlan, "costumes")

\* Roster ascension 0, plan-level ascensions enabled, the plan servant's
\* own ascensions flag disabled: the claim of C2 fails in this state.
C2_FailingState ==
    /\ Done
    /\ previousPlans = <<>>
    /\ optionsOverride = Undefined
    /\ targetPlan.enabled.ascensions
    /\ targetPlan.servants = <<AscensionsOff>>
    /\ masterAccount.servants[1].ascension = 0
    /\ result.targetPlan.items[7].ascensions = 10

\* A plan without the entries that the loop skips.
WithoutSkipped(plan) == [plan EXCEPT !.servants = ComputableEntries(plan)]

\* The result of the walk over the first n preceding plans, skipped entries
\* removed.
RECURSIVE WalkWithoutSkipped(_)
WalkWithoutSkipped(n) ==
    IF n = 0 THEN _instantiatePlanRequirements
    ELSE _computePlanRequirements(WalkWithoutSkipped(n - 1), gameServantMap,
             _preProcessMasterAccount(masterAccount), WithoutSkipped(previousPlans[n]),
             PlanLevelOptions, FALSE)

ComputedInstanceIds ==
    {targetPlan.servants[k].instanceId :
        k \in {j \in DOMAIN targetPlan.servants : Computable(targetPlan.servants[j])}}
    \cup UNION {
        {previousPlans[n].servants[k].instanceId :
            k \in {j \in DOMAIN previousPlans[n].servants :
                       Computable(previousPlans[n].servants[j])}} :
        n \in DOMAIN previousPlans}

\* C9: a plan servant that is not enabled, whose instance id is not in the
\* roster or whose game servant is not in the catalog is skipped: the
\* result is the one of the same call without these entries (so they add
\* nothing to any bucket or per-servant record and the entries after them
\* are computed), the per-servant records are those of the other entries,
\* and a plan with skipped entries only leaves its bucket empty.
C9_SkippedEntriesAddNothing ==
    Done =>
        /\ result = _computePlanRequirements(WalkWithoutSkipped(Len(previousPlans)),
                        gameServantMap, _preProcessMasterAccount(masterAccount),
                        WithoutSkipped(targetPlan), PlanLevelOptions, TRUE)
        /\ DOMAIN result.servants = ComputedInstanceIds
        /\ ComputableEntries(targetPlan) = <<>> =>
               result.targetPlan = _instantiateEnhancementRequirements
        /\ \A n \in DOMAIN previousPlans :
               previousPlans[n]._id \in DOMAIN result.previousPlans
                   <=> ComputableEntries(previousPlans[n]) # <<>>
        /\ ComputedInstanceIds = {} => result = _instantiatePlanRequirements

\* The three kinds of skipped entries are met (an instance id missing from
\* the roster and a game servant missing from the catalog in the preceding
\* plan, a disabled entry in the target plan) and the entry after them is
\* computed in both plans; the disabled entry has left no baseline.
C9_Witness ==
    /\ Done
    /\ Len(previousPlans) = 1
    /\ previousPlans[1].servants = <<NotInAccount, NotInCatalog, SecondServant>>
    /\ targetPlan.servants = <<ServantOff, ToAscension4>>
    /\ DOMAIN result.servants = {1, 2}
    /\ result.servants[1].current.ascension = masterAccount.servants[1].ascension
    /\ result.previousPlans[1].qp > 0
    /\ result.targetPlan.qp > 0

RECURSIVE TotalOf(_, _, _, _)
TotalOf(recordsByKey, keys, itemId, field) ==
    IF keys = {} THEN 0
    ELSE LET key == CHOOSE k \in keys : TRUE
         IN  Subtotal(recordsByKey[key], itemId, field)
             + TotalOf(recordsByKey, keys \ {key}, itemId, field)

RECURSIVE TotalQp(_, _)
TotalQp(recordsByKey, keys) ==
    IF keys = {} THEN 0
    ELSE LET key == CHOOSE k \in keys : TRUE
         IN  recordsByKey[key].qp + TotalQp(recordsByKey, keys \ {key})

RECURSIVE TotalEmbers(_, _, _)
TotalEmbers(recordsByKey, keys, rarity) ==
    IF keys = {} THEN 0
    ELSE LET key == CHOOSE k \in keys : TRUE
         IN  recordsByKey[key].embers[rarity] + TotalEmbers(recordsByKey, keys \ {key}, rarity)

\* `total` is the field-wise sum of the records of a map.
IsSumOf(total, recordsByKey) ==
    /\ total.qp = TotalQp(recordsByKey, DOMAIN recordsByKey)
    /\ \A rarity \in 1..5 :
           total.embers[rarity] = TotalEmbers(recordsByKey, DOMAIN recordsByKey, rarity)
    /\ DOMAIN total.items = UNION {DOMAIN recordsByKey[key].items : key \in DOMAIN recordsByKey}
    /\ \A itemId \in ItemIds, field \in Axes \cup {"total"} :
           Subtotal(total, itemId, field) =
               TotalOf(recordsByKey, DOMAIN recordsByKey, itemId, field)

ServantRequirements ==
    [instanceId \in DOMAIN result.servants |-> result.servants[instanceId].requirements]

\* C10: result.group is the field-wise sum of result.targetPlan and of the
\* buckets of result.previousPlans, which are keyed by the ids of the
\* preceding plans; result.targetPlan is the field-wise sum of the
\* per-servant requirements; and the costs of a preceding plan are never
\* added to a servant's requirements, which stay zero until the target plan
\* is computed.
C10_BucketsAddUp ==
    /\ IsSumOf(result.group,
               MapPut(result.previousPlans, targetPlan._id, result.targetPlan))
    /\ DOMAIN result.previousPlans \subseteq
           {previousPlans[n]._id : n \in DOMAIN previousPlans}
    /\ IsSumOf(result.targetPlan, ServantRequirements)
    /\ ~Done =>
           \A instanceId \in DOMAIN result.servants :
               result.servants[instanceId].requirements = _instantiateEnhancementRequirements

\* A preceding plan and a target plan with two servants have been computed:
\* both buckets and both per-servant records hold a cost.
C10_Witness ==
    /\ Done
    /\ Len(previousPlans) = 1
    /\ previousPlans[1].servants = <<ToAscension2>>
    /\ targetPlan.servants = <<SecondServant, ToAscension4>>
    /\ result.previousPlans[1].qp > 0
    /\ result.servants[1].requirements.qp > 0
    /\ result.servants[2].requirements.qp > 0
    /\ result.group.qp = result.previousPlans[1].qp + result.targetPlan.qp
    /\ result.group.qp > result.targetPlan.qp

\* Every item's total is the sum of its four subtotals.
TotalsAddUp(requirements) ==
    \A itemId \in DOMAIN requirements.items :
        LET item == requirements.items[itemId]
        IN  item.total = item.ascensions + item.skills + item.appendSkills + item.costumes

\* C11: in every requirement record of the result (per servant, target
\* plan, preceding plans and group) each item's total is the sum of its
\* ascensions, skills, appendSkills and costumes subtotals, at every point
\* of the walk, that is after every addEnhancementRequirements into them.
C11_TotalsAddUp ==
    /\ TotalsAddUp(result.targetPlan)
    /\ TotalsAddUp(result.group)
    /\ \A planId \in DOMAIN result.previousPlans : TotalsAddUp(result.previousPlans[planId])
    /\ \A instanceId \in DOMAIN result.servants :
           TotalsAddUp(result.servants[instanceId].requirements)

\* The group holds an item with a cost on three axes that was added to from
\* a preceding plan and from the target plan.
C11_Witness ==
    /\ Done
    /\ Len(previousPlans) = 1
    /\ previousPlans[1].servants = <<ToAscension2>>
    /\ targetPlan.servants = <<ToAscension4>>
    /\ 7 \in DOMAIN result.previousPlans[1].items
    /\ 7 \in DOMAIN result.targetPlan.items
    /\ result.group.items[7].ascensions > 0
    /\ result.group.items[7].skills > 0
    /\ result.group.items[7].costumes > 0
    /\ result.group.items[7].total =
           result.previousPlans[1].items[7].total + result.targetPlan.items[7].total

\* The roster servant with an instance id.
RosterServant(instanceId) == CHOOSE masterServant \in RosterServants(instanceId) : TRUE

\* C12: when excludeLores is set in the options given by the caller of
\* computePlanRequirements, the step MaxSkillLevel - 1 adds nothing to the
\* skills and append-skills subtotals: a servant whose only computed entry
\* is in the target plan is charged the skill levels from its roster state
\* to its target without that step.
C12_LoresExcludedInPlans ==
    ( /\ Done
      /\ IsDefined(optionsOverride)
      /\ Truthy(ValueOf(optionsOverride).excludeLores) ) =>
        \A instanceId \in DOMAIN result.servants :
            LET entries == EntriesOf(targetPlan, instanceId)
            IN  ( /\ PrecedingEntries(instanceId, Len(previousPlans)) = <<>>
                  /\ Len(entries) = 1 ) =>
                LET planServant == entries[1]
                    gameServant == GameServantOf(instanceId)
                    live        == RosterServant(instanceId)
                    own         == result.servants[instanceId].requirements
                IN  /\ ( /\ Truthy(ValueOf(optionsOverride).includeSkills)
                         /\ planServant.enabled.skills ) =>
                         \A itemId \in ItemIds :
                             Subtotal(own, itemId, "skills") =
                                 WeightedQuantity(gameServant.skillMaterials,
                                     ChargedSkillLevels(gameServant.skillMaterials, "true"),
                                     SlotCounts(gameServant.skillMaterials, live.skills,
                                                planServant.skills, "true"),
                                     itemId)
                    /\ ( /\ Truthy(ValueOf(optionsOverride).includeAppendSkills)
                         /\ planServant.enabled.appendSkills ) =>
                         \A itemId \in ItemIds :
                             Subtotal(own, itemId, "appendSkills") =
                                 WeightedQuantity(gameServant.appendSkillMaterials,
                                     ChargedSkillLevels(gameServant.appendSkillMaterials, "true"),
                                     SlotCounts(gameServant.appendSkillMaterials, live.appendSkills,
                                                planServant.appendSkills, "true"),
                                     itemId)

(***************************************************************************)
(* The public single-servant computation (CalcSpec).                       *)
(***************************************************************************)

CalcReturnedPublic == calcPc = "returnedPublic"

\* The options with every omitted include flag read as true; an omitted
\* excludeLores is not truthy as it stands.
WithOmittedAsDefault(opts) ==
    [includeAscensions   |-> IF opts.includeAscensions = "undefined" THEN "true"
                             ELSE opts.includeAscensions,
     includeSkills       |-> IF opts.includeSkills = "undefined" THEN "true"
                             ELSE opts.includeSkills,
     includeAppendSkills |-> IF opts.includeAppendSkills = "undefined" THEN "true"
                             ELSE opts.includeAppendSkills,
     includeCostumes     |-> IF opts.includeCostumes = "undefined" THEN "true"
                             ELSE opts.includeCostumes,
     excludeLores        |-> IF opts.excludeLores = "undefined" THEN "false"
                             ELSE opts.excludeLores]

\* C13: an include flag that is omitted from a supplied options object is
\* treated as true and an omitted excludeLores as false: the record returned
\* by computeServantEnhancementRequirements for a supplied options object is
\* the record returned for the same options with the omitted fields set to
\* their defaults; with {excludeLores: true} the ascension, skill,
\* append-skill and costume costs are still computed.
C13_OmittedFlagsDefault ==
    (CalcReturnedPublic /\ IsDefined(calcIn.options)) =>
        calcOut = computeServantEnhancementRequirements(CalcServant, calcIn.current,
                      calcIn.currentCostumes,
                      Some(WithOmittedAsDefault(ValueOf(calcIn.options))))

\* The maximum target: every skill and append skill at the maximum level.
MaxSkills == <<MaxSkillLevel, MaxSkillLevel, MaxSkillLevel>>

\* The amount of an axis when its flag is truthy, and 0 when it is not.
WhenEnabled(flag, qp) == IF Truthy(flag) THEN qp ELSE 0

\* C19: computeServantEnhancementRequirements returns the cost from the
\* given current state to the fixed maximum target: the ascension breakpoints
\* up to the maximum ascension, the levels of the three skills and of the
\* three append skills up to the maximum skill level, and every catalog
\* costume not in currentCostumes, each on the axes the options enable; with
\* default options a servant at that maximum that owns all of its costumes
\* gets the all-zero record.
C19_MaximumTarget ==
    CalcReturnedPublic =>
        LET skillCounts  == SlotCounts(CalcServant.skillMaterials, calcIn.current.skills,
                                       MaxSkills, CalcOptions.excludeLores)
            appendCounts == SlotCounts(CalcServant.appendSkillMaterials,
                                       calcIn.current.appendSkills, MaxSkills,
                                       CalcOptions.excludeLores)
            breakpoints  == AscensionBreakpoints(CalcServant, OrZero(calcIn.current.ascension),
                                                 MaxAscensionLevel)
            costumes     == ChargedCostumes(CalcServant, calcIn.currentCostumes, Undefined)
        IN  /\ \A itemId \in ItemIds :
                /\ Subtotal(calcOut, itemId, "skills") =
                       WhenEnabled(CalcOptions.includeSkills,
                           WeightedQuantity(CalcServant.skillMaterials, DOMAIN skillCounts,
                                            skillCounts, itemId))
                /\ Subtotal(calcOut, itemId, "appendSkills") =
                       WhenEnabled(CalcOptions.includeAppendSkills,
                           WeightedQuantity(CalcServant.appendSkillMaterials,
                                            DOMAIN appendCounts, appendCounts, itemId))
                /\ Subtotal(calcOut, itemId, "ascensions") =
                       WhenEnabled(CalcOptions.includeAscensions,
                           WeightedQuantity(CalcServant.ascensionMaterials, breakpoints,
                                            Once(breakpoints), itemId))
                /\ Subtotal(calcOut, itemId, "costumes") =
                       WhenEnabled(CalcOptions.includeCostumes,
                           WeightedQuantity(CostumeTable(CalcServant), costumes,
                                            Once(costumes), itemId))
            /\ calcOut.qp =
                   WhenEnabled(CalcOptions.includeSkills,
                       WeightedQp(CalcServant.skillMaterials, DOMAIN skillCounts, skillCounts))
                 + WhenEnabled(CalcOptions.includeAppendSkills,
                       WeightedQp(CalcServant.appendSkillMaterials, DOMAIN appendCounts,
                                  appendCounts))
                 + WhenEnabled(CalcOptions.includeAscensions,
                       WeightedQp(CalcServant.ascensionMaterials, breakpoints,
                                  Once(breakpoints)))
                 + WhenEnabled(CalcOptions.includeCostumes,
                       WeightedQp(CostumeTable(CalcServant), costumes, Once(costumes)))
            /\ ( /\ ~IsDefined(calcIn.options)
                 /\ calcIn.current.ascension = MaxAscensionLevel
                 /\ calcIn.current.skills = MaxSkills
                 /\ calcIn.current.appendSkills = MaxSkills
                 /\ DOMAIN CalcServant.costumes \subseteq calcIn.currentCostumes ) =>
                    calcOut = _instantiateEnhancementRequirements

\* A servant at ascension 0 with skills (3, 5, 7) and no costume has been
\* computed with default options against the maximum target, whatever
\* target the input names: four breakpoints, the last skill step for three
\* slots and both costumes are charged.
C19_Witness ==
    /\ CalcReturnedPublic
    /\ calcIn.gameId = 1
    /\ ~IsDefined(calcIn.options)
    /\ calcIn.current.ascension = 0
    /\ calcIn.target.ascension = 2
    /\ calcIn.current.skills = <<3, 5, 7>>
    /\ calcIn.currentCostumes = {}
    /\ calcOut.items[7].ascensions = 10
    /\ calcOut.items[9].skills = 3
    /\ calcOut.items[7].costumes = 5
    /\ calcOut.items[8].costumes = 4

\* A servant at the maximum that owns both costumes has been computed with
\* default options.
C19_MaximumReached ==
    /\ CalcReturnedPublic
    /\ calcIn.gameId = 1
    /\ ~IsDefined(calcIn.options)
    /\ calcIn.current.ascension = MaxAscensionLevel
    /\ calcIn.current.skills = MaxSkills
    /\ calcIn.current.appendSkills = MaxSkills
    /\ calcIn.currentCostumes = CostumeIds
    /\ calcOut = _instantiateEnhancementRequirements

(***************************************************************************)
(* Chains of plans (Spec).                                                 *)
(***************************************************************************)

\* The quantity of an item needed to unlock, once each, the catalog
\* costumes of the given servants that the account does not own.
RECURSIVE UnownedCostumeQuantity(_, _)
UnownedCostumeQuantity(instanceIds, itemId) ==
    IF instanceIds = {} THEN 0
    ELSE LET instanceId  == CHOOSE i \in instanceIds : TRUE
             gameServant == GameServantOf(instanceId)
             costumes    == ChargedCostumes(gameServant, ToSet(masterAccount.costumes),
                                            Undefined)
         IN  WeightedQuantity(CostumeTable(gameServant), costumes, Once(costumes), itemId)
             + UnownedCostumeQuantity(instanceIds \ {instanceId}, itemId)

\* C14: a costume charged by a preceding plan counts as unlocked when a later
\* plan is computed, so result.group holds the cost of a costume of a
\* servant at most once, however many plans of the chain target it.
C14_CostumeCountedOnce ==
    Done =>
        \A itemId \in ItemIds :
            Subtotal(result.group, itemId, "costumes") <=
                UnownedCostumeQuantity(ComputedInstanceIds, itemId)

\* C15: with no optionsOverride, an axis disabled at plan level in a
\* preceding plan adds nothing to that plan's bucket in
\* result.previousPlans, whatever the target plan enables.
C15_AxisDisabledInPrecedingPlan ==
    (Done /\ ~IsDefined(optionsOverride)) =>
        \A n \in DOMAIN previousPlans : \A axis \in Axes :
            ( /\ ~previousPlans[n].enabled[axis]
              /\ previousPlans[n]._id \in DOMAIN result.previousPlans ) =>
                AxisIsZero(result.previousPlans[previousPlans[n]._id], axis)

\* The orderings of the entries of a sequence.
Orderings(seq) ==
    {[i \in DOMAIN seq |-> seq[order[i]]] :
        order \in {f \in [DOMAIN seq -> DOMAIN seq] :
                      \A i, j \in DOMAIN seq : f[i] = f[j] => i = j}}

\* The plan with its entries in each possible order.
Reordered(plan) == {[plan EXCEPT !.servants = servants] : servants \in Orderings(plan.servants)}

\* The lists of plans obtained by reordering the entries within each plan.
RECURSIVE ReorderedLists(_)
ReorderedLists(plans) ==
    IF plans = <<>> THEN {<<>>}
    ELSE {<<first>> \o rest : first \in Reordered(Head(plans)),
                              rest \in ReorderedLists(Tail(plans))}

DistinctInstanceIds(plan) ==
    \A i, j \in DOMAIN plan.servants :
        plan.servants[i].instanceId = plan.servants[j].instanceId => i = j

\* The result of the walk over the first n plans of `preceding`.
RECURSIVE WalkOver(_, _, _)
WalkOver(preceding, n, opts) ==
    IF n = 0 THEN _instantiatePlanRequirements
    ELSE _computePlanRequirements(WalkOver(preceding, n - 1, opts), gameServantMap,
             _preProcessMasterAccount(masterAccount), preceding[n], opts, FALSE)

\* The result of computePlanRequirements for the given plans, the other
\* arguments being those of the call.
FullWalk(preceding, target) ==
    LET opts == IF IsDefined(optionsOverride) THEN ValueOf(optionsOverride)
                ELSE _parseComputationOptions(target)
    IN  _computePlanRequirements(WalkOver(preceding, Len(preceding), opts), gameServantMap,
            _preProcessMasterAccount(masterAccount), target, opts, TRUE)

\* C16: for a fixed ordered list of plans whose entries have pairwise
\* distinct instance ids within each plan, the result (target-plan bucket,
\* preceding-plan buckets, group total and every per-servant record) is the
\* same for every order of the entries within the plans; the order of the
\* plans themselves is not covered, and the witness shows a walk whose
\* result changes when two plans are swapped.
C16_EntryOrderIrrelevant ==
    ( /\ Done
      /\ DistinctInstanceIds(targetPlan)
      /\ \A n \in DOMAIN previousPlans : DistinctInstanceIds(previousPlans[n]) ) =>
        \A preceding \in ReorderedLists(previousPlans), target \in Reordered(targetPlan) :
            result = FullWalk(preceding, target)

\* The preceding plan has two computed entries, so that it has two orders;
\* servant 1 is live at ascension 3 and goes to ascension 4 in the preceding
\* plan and to 2 in the target plan.  The walk with the two plans swapped
\* gives another group total and another target-plan bucket.
C16_Witness ==
    /\ Done
    /\ Len(previousPlans) = 1
    /\ previousPlans[1].servants = <<SecondServant, ToAscension4>>
    /\ targetPlan.servants = <<ToAscension2>>
    /\ RosterServant(1).ascension = 3
    /\ ~IsDefined(optionsOverride)
    /\ previousPlans[1].enabled = targetPlan.enabled
    /\ targetPlan.enabled.ascensions
    /\ Cardinality(Reordered(previousPlans[1])) = 2
    /\ result.group.items[8].ascensions = 1
    /\ LET swapped == FullWalk(<<targetPlan>>, previousPlans[1])
       IN  /\ swapped.group.items[8].ascensions = 2
           /\ swapped.group # result.group
           /\ swapped.targetPlan # result.targetPlan
           /\ swapped.servants[1].requirements # result.servants[1].requirements

\* The value of an object made during the call.
ObjectValue(ref) == enhancementObjects.values[ref.id]

\* C17: computePlanRequirements never modifies its inputs: every step of
\* the call, with each write of updateEnhancements applied to the object
\* that its first argument designates, leaves the game servant map, the
\* master account, the target plan, the preceding plans (with the target
\* enhancements of their plan servants) and the options override as they
\* were, also when a servant is promoted across several plans.
C17_InputsUnchanged == [][planInputs' = planInputs]_vars

\* Servant 1 has been promoted twice across a chain of three plans, each
\* with another target: the two objects of its entry were made during the
\* call and hold the values of the result, which are those of the last two
\* plans, while the roster and the two preceding plans hold their own.
C17_Witness ==
    /\ Done
    /\ Len(previousPlans) = 2
    /\ previousPlans[1].servants = <<ToAscension2>>
    /\ previousPlans[2].servants = <<SecondServant, ToAscension4>>
    /\ targetPlan.servants = <<NoAscension>>
    /\ RosterServant(1).ascension = 3
    /\ masterAccountData.servants[1] = RosterServant(1)
    /\ LET entry == enhancementObjects.servants[1]
       IN  /\ entry.current.of = "new"
           /\ entry.target.of = "new"
           /\ entry.current # entry.target
           /\ ObjectValue(entry.current) = result.servants[1].current
           /\ ObjectValue(entry.target) = result.servants[1].target
    /\ result.servants[1].current.ascension = 4
    /\ result.servants[1].current.skills = ToAscension4.skills
    /\ result.servants[1].target.ascension = Null
    /\ result.servants[1].target.skills = NoAscension.skills
    /\ Len(enhancementObjects.values) = 4

(***************************************************************************)
(* Requirement addition on record objects (AddSpec).                       *)
(***************************************************************************)

\* C18: addEnhancementRequirements(target, source) changes only target: the
\* source holds the same values afterwards and shares no item entry with
\* the target, so a later addition into the target leaves the source
\* unchanged, and the records of two servants added in turn to the
\* per-servant records, the plan's bucket and the group total stay as they
\* were while every bucket holds its own sum.
C18_AdditionChangesOnlyTarget ==
    addPc.bucketed =>
        /\ addOut.twice.source = addIn[2]
        /\ addOut.twice.later = addIn[3]
        /\ addOut.twice.afterFirst = addEnhancementRequirements(addIn[1], addIn[2])
        /\ addOut.twice.target =
               addEnhancementRequirements(
                   addEnhancementRequirements(addIn[1], addIn[2]), addIn[3])
        /\ ~addOut.twice.shared
        /\ addOut.buckets.first = addIn[1]
        /\ addOut.buckets.second = addIn[2]
        /\ addOut.buckets.servant1 = addIn[1]
        /\ addOut.buckets.servant2 = addIn[2]
        /\ addOut.buckets.plan = addEnhancementRequirements(addIn[1], addIn[2])
        /\ addOut.buckets.group = addEnhancementRequirements(addIn[1], addIn[2])
        /\ ~addOut.buckets.shared

\* The target A has item 8 only, the source B items 7 and 8, so that the
\* addition of B makes a new entry for item 7 in A; the later addition of C
\* adds to that entry, and B still holds its own.
C18_Witness ==
    /\ addPc.bucketed
    /\ addIn[1].items = (8 :> ItemEntryB)
    /\ addIn[2].items = (7 :> ItemEntryA @@ 8 :> ItemEntryB)
    /\ addIn[3].items = (7 :> ItemEntryB)
    /\ addOut.twice.afterFirst.items[7] = ItemEntryA
    /\ addOut.twice.target.items[7].total = 7
    /\ addOut.twice.source.items[7] = ItemEntryA
    /\ addOut.buckets.plan.items[8].total = 12
    /\ addOut.buckets.servant1.items[8].total = 6

(***************************************************************************)
(* Telescoping of a chain (Spec).                                          *)
(***************************************************************************)

\* The plans of the walk, preceding plans first.
WalkPlans == previousPlans \o <<targetPlan>>

\* The entries of a plan with an instance id, computed or not.
EntriesWithId(plan, instanceId) ==
    SelectSeq(plan.servants, LAMBDA planServant : planServant.instanceId = instanceId)

\* An enhancement state is at most another one on every axis and slot, a
\* missing level counting as 0.
AtMost(a, b) ==
    /\ OrZero(a.ascension) <= OrZero(b.ascension)
    /\ \A slot \in 1..3 :
           /\ OrZero(a.skills[slot]) <= OrZero(b.skills[slot])
           /\ OrZero(a.appendSkills[slot]) <= OrZero(b.appendSkills[slot])

\* The servant has one entry in every plan of the walk, enabled and with
\* every axis enabled, and its targets never decrease along the walk.
InEveryPlan(instanceId) ==
    /\ \A n \in DOMAIN WalkPlans :
           /\ Len(EntriesWithId(WalkPlans[n], instanceId)) = 1
           /\ EntriesWithId(WalkPlans[n], instanceId)[1].enabled = AllEnabled
    /\ \A n \in DOMAIN WalkPlans :
           n > 1 => AtMost(EntriesWithId(WalkPlans[n - 1], instanceId)[1],
                           EntriesWithId(WalkPlans[n], instanceId)[1])

\* Every axis is enabled in the options of the call and in every plan.
AllAxesEnabled ==
    /\ \A n \in DOMAIN WalkPlans : \A axis \in Axes : WalkPlans[n].enabled[axis]
    /\ Truthy(PlanLevelOptions.includeAscensions)
    /\ Truthy(PlanLevelOptions.includeSkills)
    /\ Truthy(PlanLevelOptions.includeAppendSkills)
    /\ Truthy(PlanLevelOptions.includeCostumes)

\* The first target of the servant is not below its roster state.
StartsAtOrAboveRoster(instanceId) ==
    AtMost(RosterServant(instanceId), EntriesWithId(WalkPlans[1], instanceId)[1])

\* The cost on an axis, for an item, from the roster state of a servant to
\* its target in the target plan, every level step included.
DirectCost(instanceId, axis, itemId) ==
    LET gameServant == GameServantOf(instanceId)
        live        == RosterServant(instanceId)
        last        == EntriesWithId(targetPlan, instanceId)[1]
        breakpoints == AscensionBreakpoints(gameServant, OrZero(live.ascension),
                                            OrZero(last.ascension))
    IN  CASE axis = "ascensions" ->
                 WeightedQuantity(gameServant.ascensionMaterials, breakpoints,
                                  Once(breakpoints), itemId)
          [] axis = "skills" ->
                 WeightedQuantity(gameServant.skillMaterials,
                     DOMAIN gameServant.skillMaterials,
                     SlotCounts(gameServant.skillMaterials, live.skills, last.skills, "false"),
                     itemId)
          [] axis = "appendSkills" ->
                 WeightedQuantity(gameServant.appendSkillMaterials,
                     DOMAIN gameServant.appendSkillMaterials,
                     SlotCounts(gameServant.appendSkillMaterials, live.appendSkills,
                                last.appendSkills, "false"),
                     itemId)

RECURSIVE TotalDirectCost(_, _, _)
TotalDirectCost(instanceIds, axis, itemId) ==
    IF instanceIds = {} THEN 0
    ELSE LET instanceId == CHOOSE i \in instanceIds : TRUE
         IN  DirectCost(instanceId, axis, itemId)
             + TotalDirectCost(instanceIds \ {instanceId}, axis, itemId)

\* The group total holds, on the three level axes, the direct costs of the
\* computed servants.
GroupIsDirectCost ==
    \A axis \in {"ascensions", "skills", "appendSkills"} : \A itemId \in ItemIds :
        Subtotal(result.group, itemId, axis) =
            TotalDirectCost(ComputedInstanceIds, axis, itemId)

\* C20 as stated: when every computed servant is enabled in every plan of
\* the walk, with all axes enabled and targets that never decrease, its
\* ascension, skill and append-skill contribution to result.group is the
\* cost from the roster state to the target of the last plan.
C20_Telescoping ==
    ( /\ Done
      /\ AllAxesEnabled
      /\ \A instanceId \in ComputedInstanceIds : InEveryPlan(instanceId) ) =>
        GroupIsDirectCost

\* C20, amended: the same, for servants whose first target is moreover not
\* below the roster state on any axis (a missing level counting as 0).
C20_TelescopingFromRoster ==
    ( /\ Done
      /\ AllAxesEnabled
      /\ \A instanceId \in ComputedInstanceIds :
             InEveryPlan(instanceId) /\ StartsAtOrAboveRoster(instanceId) ) =>
        GroupIsDirectCost

\* Servant 1, at ascension 0 in the roster, goes to ascension 2 in the
\* preceding plan and to 4 in the target plan: the preceding bucket holds
\* the breakpoints 1 and 2, the target-plan bucket 3 and 4, and the group
\* total all four.
C20_Witness ==
    /\ Done
    /\ AllAxesEnabled
    /\ Len(previousPlans) = 1
    /\ previousPlans[1].servants = <<ToAscension2>>
    /\ targetPlan.servants = <<ToAscension4>>
    /\ RosterServant(1).ascension = 0
    /\ InEveryPlan(1) /\ StartsAtOrAboveRoster(1)
    /\ result.previousPlans[1].items[7].ascensions = 3
    /\ result.targetPlan.items[7].ascensions = 7
    /\ result.group.items[7].ascensions = 10
    /\ result.group.items[9].skills = 1

(***************************************************************************)
(* The master account edit hook: instance ids and dirty marks.             *)
(***************************************************************************)

\* The last call made on the hook is an addServants, addServant or
\* deleteServants call.
AddOrDeleteCalled == hookCall.op \in {"addServants", "addServant", "deleteServants"}

InstanceIdsOf(servants) == {servants[i].instanceId : i \in DOMAIN servants}

DistinctServantIds(servants) ==
    \A i, j \in DOMAIN servants : i # j => servants[i].instanceId # servants[j].instanceId

\* The servants appended by the last call, an addServants or addServant
\* call, and the servants that were present before it.
AddedCount == editData.lastServantInstanceId - hookCall.last
PresentBeforeAdd == SubSeq(editData.servants, 1, Len(editData.servants) - AddedCount)
AddedByCall ==
    SubSeq(editData.servants, Len(editData.servants) - AddedCount + 1, Len(editData.servants))

\* C22: the servants of the edit data have pairwise distinct instance ids,
\* none of them is above the last instance id of the edit data, and the
\* servants appended by addServants or addServant carry no instance id of a
\* servant that was present before the call.
C22_DistinctInstanceIds ==
    /\ DistinctServantIds(editData.servants)
    /\ \A id \in InstanceIdsOf(editData.servants) : id <= editData.lastServantInstanceId
    /\ (hookCall.op \in {"addServants", "addServant"} /\ ~Rendered) =>
           InstanceIdsOf(AddedByCall) \cap InstanceIdsOf(PresentBeforeAdd) = {}

\* The quantity of an item in a record of quantities, 0 when it has no entry.
QuantityOrZero(items, itemId) == IF itemId \in DOMAIN items THEN items[itemId] ELSE 0

AddedFromClean ==
    /\ Rendered
    /\ \E servantIds \in ServantIdLists, servantData \in NewServantUpdates :
           HookState(editData, dirtyData)
               = addServants(cloneMasterAccountDataForEdit(hookAccount, includeOptions),
                             referenceData, getDefaultMasterAccountEditDirtyData,
                             includeOptions, servantIds, servantData)

\* C24: from clean data, addServants followed by deleteServants of exactly
\* the added instance ids leaves no dirty servant, the servant order not
\* dirty and no data dirty.
C24_AddThenDeleteIsClean ==
    [][(/\ includeOptions.includeServants
        /\ AddedFromClean
        /\ hookCall'.op = "deleteServants"
        /\ toSet(hookCall'.ids)
               = (referenceData.lastServantInstanceId + 1)..editData.lastServantInstanceId)
       => (/\ IsDefined(queuedState'.dirtyData)
           /\ ValueOf(queuedState'.dirtyData).servants = {}
           /\ ~ValueOf(queuedState'.dirtyData).servantOrder
           /\ ~hasDirtyData(ValueOf(queuedState'.dirtyData)))]_vars

\* C25: when updateAccount rejects, the edit data, the reference data, the
\* dirty data and the queued updates stay as they are, the loading
\* indicator is off and persistChanges has rejected; when updateAccount
\* publishes the updated account, the clones of that account and the
\* default dirty data are queued as the three states, and when
\* persistChanges resolves after that the indicator is off.
C25_RejectionKeepsEdits ==
    [][/\ (hookCall'.op = "updateAccountRejected" /\ Len(persist') < Len(persist))
          => (/\ editData' = editData
              /\ referenceData' = referenceData
              /\ dirtyData' = dirtyData
              /\ hookAccount' = hookAccount
              /\ queuedState' = queuedState
              /\ ~loadingIndicator'
              /\ Len(persist') = Len(persist) - 1
              /\ hookCall'.outcome = "rejected")
       /\ (hookCall'.op = "updateAccountPublished" /\ persist' # persist)
          => (/\ IsDefined(queuedState'.masterAccount)
              /\ IsDefined(ValueOf(queuedState'.masterAccount))
              /\ queuedState'.editData =
                     Some(cloneMasterAccountDataForEdit(ValueOf(queuedState'.masterAccount),
                                                        includeOptions))
              /\ queuedState'.referenceData =
                     Some(cloneMasterAccountDataForReference(
                              ValueOf(queuedState'.masterAccount), includeOptions))
              /\ queuedState'.dirtyData = Some(getDefaultMasterAccountEditDirtyData))
       /\ (hookCall'.op = "updateAccountResolved" /\ Len(persist') < Len(persist))
          => (/\ \E i \in DOMAIN persist : persist[i].pc = "published"
              /\ editData' = editData
              /\ queuedState' = queuedState
              /\ ~loadingIndicator'
              /\ hookCall'.outcome = "resolved")]_vars

\* updateAccount has rejected while data was dirty: it is still dirty and
\* the loading indicator is off.
C25_Witness ==
    /\ hookCall.op = "updateAccountRejected"
    /\ hookCall.outcome = "rejected"
    /\ Rendered
    /\ hasDirtyData(dirtyData)
    /\ editData # cloneMasterAccountDataForEdit(hookAccount, includeOptions)
    /\ ~loadingIndicator

(***************************************************************************)
(* The master account service: automatic selection, overlapping            *)
(* selections and locks.                                                   *)
(***************************************************************************)

\* The id _readCurrentAccountFromStorage returns for a storage.
StoredAccountId(stored) ==
    IF stored.session # NoAccountId THEN stored.session ELSE stored.local

\* C26: in its last run _autoSelectAccount selected the null account when
\* the list was null or empty, did nothing when the current account was in
\* the list, and otherwise selected the first account of the list.
C26_AutoSelectFirst ==
    autoSelected.ran =>
        LET list == autoSelected.list
            decision == autoSelected.decision
        IN  IF ~IsDefined(list) \/ Len(ValueOf(list)) = 0
            THEN decision.select /\ decision.accountId = NoAccountId
            ELSE IF /\ autoSelected.current # NoAccountId
                    /\ _masterAccountListContainsId(list, autoSelected.current)
            THEN ~decision.select
            ELSE decision.select /\ decision.accountId = ValueOf(list)[1]

\* C26, amended: as above, but in the last case the account id read from
\* storage (session storage first, else local storage) is selected when it
\* is in the list, and the first account of the list when it is not.
C26_AutoSelectStoredOrFirst ==
    autoSelected.ran =>
        LET list == autoSelected.list
            decision == autoSelected.decision
            stored == StoredAccountId(autoSelected.storage)
        IN  IF ~IsDefined(list) \/ Len(ValueOf(list)) = 0
            THEN decision.select /\ decision.accountId = NoAccountId
            ELSE IF /\ autoSelected.current # NoAccountId
                    /\ _masterAccountListContainsId(list, autoSelected.current)
            THEN ~decision.select
            ELSE IF stored # NoAccountId /\ _masterAccountListContainsId(list, stored)
            THEN decision.select /\ decision.accountId = stored
            ELSE decision.select /\ decision.accountId = ValueOf(list)[1]

\* _autoSelectAccount has selected the account id in storage, which is in
\* the list but not its first account.
C26_Witness ==
    /\ autoSelected.ran
    /\ autoSelected.decision.select
    /\ autoSelected.decision.accountId # NoAccountId
    /\ autoSelected.decision.accountId = StoredAccountId(autoSelected.storage)
    /\ autoSelected.decision.accountId # ValueOf(autoSelected.list)[1]

\* C27: when selectAccount(A) and then, with A's call in flight,
\* selectAccount(B) were the two calls made, A and B different non-empty
\* ids, and both calls resolved with their account, the current account
\* and the last published value are B.
C27_LastSelectionWins ==
    (/\ Len(calls) = 2
     /\ \A i \in 1..2 :
            /\ calls[i].op = "selectAccount" /\ calls[i].origin = "user"
            /\ calls[i].arg # NoAccountId
            /\ calls[i].pc = "done" /\ calls[i].result = calls[i].arg
     /\ calls[1].arg # calls[2].arg
     /\ calls[2].overlaps)
    => (/\ currentMasterAccount = calls[2].arg
        /\ published # <<>>
        /\ published[Len(published)] = calls[2].arg)

\* A call holds the lock: it is suspended in the try block that follows
\* requestLock.
InTryBlock(lockId) ==
    \E i \in DOMAIN calls : calls[i].lockId = lockId /\ IsPending(calls[i])

\* C28: after every step, a lock requested by addAccount, updateAccount,
\* deleteAccount or _handleCurrentUserChange is held and was never released
\* while the call is in its try block, and was released exactly once and is
\* not held once the call has left it, by success or by failure; a step in
\* which updateAccount rejects changes neither the current account nor the
\* values published on CurrentMasterAccountChange.
C28_LocksReleasedOnce ==
    [][/\ \A lockId \in DOMAIN locks'.log :
              IF InTryBlock(lockId)'
              THEN locks'.log[lockId].releases = 0 /\ lockId \in locks'.held
              ELSE locks'.log[lockId].releases = 1 /\ lockId \notin locks'.held
       /\ \A i \in DOMAIN calls' :
              (/\ calls'[i].op \in {"addAccount", "updateAccount", "deleteAccount",
                                    "_handleCurrentUserChange"}
               /\ IsPending(calls'[i]))
              => (/\ calls'[i].lockId \in DOMAIN locks'.log
                  /\ locks'.log[calls'[i].lockId].op = calls'[i].op)
       /\ \A i \in DOMAIN calls :
              (/\ calls[i].op = "updateAccount"
               /\ IsPending(calls[i])
               /\ calls'[i].pc = "failed")
              => (/\ currentMasterAccount' = currentMasterAccount
                  /\ published' = published)]_vars

\* updateAccount has rejected and another locking method has resolved; all
\* locks were released once and none is held.
C28_Witness ==
    /\ \E i \in DOMAIN calls : calls[i].op = "updateAccount" /\ calls[i].pc = "failed"
    /\ Len(locks.log) = 2
    /\ \A lockId \in DOMAIN locks.log : locks.log[lockId].releases = 1
    /\ \E lockId \in DOMAIN locks.log : locks.log[lockId].op # "updateAccount"
    /\ locks.held = {}
    /\ \A i \in DOMAIN calls : ~IsPending(calls[i])

=============================================================================
